---------------------------- MODULE Spec2Model ----------------------------
(***************************************************************************)
(* A model of the scraper-service of hub-bot-9000: the record              *)
(* deduplication engine (deduplication.py), the content detectors          *)
(* (detectors/*.py) and the content-analysis endpoint (main.py).           *)
(*                                                                         *)
(* Texts are TLA+ strings and are processed character by character, as the *)
(* Python code does: substring tests, lower-casing, phrase removal and     *)
(* whitespace splitting are computed, not assumed.                         *)
(***************************************************************************)
EXTENDS Integers, Sequences, FiniteSets, TLC

\* deduplicate_events (deduplication.py)
VARIABLES events, similarity_threshold, dedupPc, idx, deduplicated, seen_keys, dedupResult

dedupVars == <<events, similarity_threshold, dedupPc, idx, deduplicated, seen_keys, dedupResult>>

\* classify_tone (detectors/tone.py)
VARIABLES toneText, api_key, GOOGLE_API_KEY, tonePc, capability, toneResult

toneVars == <<toneText, api_key, GOOGLE_API_KEY, tonePc, capability, toneResult>>

\* detect_farewell (detectors/farewell.py)
VARIABLES farewellText, farewellPc, farewellResult

farewellVars == <<farewellText, farewellPc, farewellResult>>

\* analyze_content (main.py)
VARIABLES content, request, request_counts, now, RATE_LIMIT, SCRAPER_API_KEY,
          analyzePc, detections, events_emitted, log, response

analyzeVars == <<content, request, request_counts, now, RATE_LIMIT, SCRAPER_API_KEY,
                 analyzePc, detections, events_emitted, log, response>>

\* detect_political_complaint (detectors/farewell.py)
VARIABLES politicalText, politicalPc, politicalResult

politicalVars == <<politicalText, politicalPc, politicalResult>>

\* detect_haiku (detectors/haiku.py): the words and their syllable counts, the
\* loop indices i and j, and the number of partition checks made so far
VARIABLES haikuText, haikuPc, haikuWords, haikuSyllables, haikuI, haikuJ, haikuChecks,
          haikuResult

haikuVars == <<haikuText, haikuPc, haikuWords, haikuSyllables, haikuI, haikuJ, haikuChecks,
               haikuResult>>

\* detect_crosslinks (detectors/crosslink.py)
VARIABLES crosslinkText, crosslinkExclude, crosslinkPc, crosslinkResult

crosslinkVars == <<crosslinkText, crosslinkExclude, crosslinkPc, crosslinkResult>>

\* the detectors that are run on their own
detectorVars == <<politicalVars, haikuVars, crosslinkVars>>

\* analyze_content called several times at once (main.py): what each call
\* holds in its own frame; the calls share request_counts and the environment
VARIABLES calls

\* analyze_batch (main.py): the frame of one call of the endpoint
VARIABLES batch

\* the requests check_rate_limit has answered, in order: who asked, when, and
\* whether it raised 429
VARIABLES served

concurrentVars == <<calls, batch, served>>

vars == <<dedupVars, toneVars, farewellVars, analyzeVars, detectorVars, concurrentVars>>

\* what a component's step leaves alone: the other components (analyze_content
\* calls classify_tone, whose variables its steps set themselves)
DedupFrame == UNCHANGED <<toneVars, farewellVars, analyzeVars, detectorVars, concurrentVars>>
ToneFrame == UNCHANGED <<dedupVars, farewellVars, analyzeVars, detectorVars, concurrentVars>>
FarewellFrame == UNCHANGED <<dedupVars, toneVars, analyzeVars, detectorVars, concurrentVars>>
AnalyzeFrame == UNCHANGED <<dedupVars, farewellVars, detectorVars, concurrentVars>>
PoliticalFrame ==
    UNCHANGED <<dedupVars, toneVars, farewellVars, analyzeVars, haikuVars, crosslinkVars,
                concurrentVars>>
HaikuFrame ==
    UNCHANGED <<dedupVars, toneVars, farewellVars, analyzeVars, politicalVars, crosslinkVars,
                concurrentVars>>
CrosslinkFrame ==
    UNCHANGED <<dedupVars, toneVars, farewellVars, analyzeVars, politicalVars, haikuVars,
                concurrentVars>>
\* the calls of analyze_content change request_counts and their own frames
ConcurrentFrame ==
    /\ UNCHANGED <<content, request, now, RATE_LIMIT, SCRAPER_API_KEY,
                   analyzePc, detections, events_emitted, log, response>>
    /\ UNCHANGED <<toneVars, dedupVars, farewellVars, detectorVars>>
    /\ UNCHANGED <<batch, served>>
\* a step of analyze_batch changes request_counts, the clock and its own frame
BatchFrame ==
    /\ UNCHANGED <<content, request, RATE_LIMIT, SCRAPER_API_KEY,
                   analyzePc, detections, events_emitted, log, response>>
    /\ UNCHANGED <<toneVars, dedupVars, farewellVars, detectorVars>>
    /\ UNCHANGED <<calls, served>>
\* a call of check_rate_limit changes request_counts and the clock
RateLimitFrame ==
    /\ UNCHANGED <<content, request, RATE_LIMIT, SCRAPER_API_KEY,
                   analyzePc, detections, events_emitted, log, response>>
    /\ UNCHANGED <<toneVars, dedupVars, farewellVars, detectorVars>>
    /\ UNCHANGED <<calls, batch>>

(***************************************************************************)
(* Python values                                                           *)
(***************************************************************************)
\* Optional[x]: None is the empty tuple, a present value x is <<x>>.
None == <<>>
Some(x) == <<x>>

Min(a, b) == IF a <= b THEN a ELSE b
Max(a, b) == IF a >= b THEN a ELSE b

(***************************************************************************)
(* Python str operations, on TLA+ strings                                  *)
(***************************************************************************)
UpperChars == "ABCDEFGHIJKLMNOPQRSTUVWXYZ"
LowerChars == "abcdefghijklmnopqrstuvwxyz"
DigitChars == "0123456789"

CharAt(s, i) == SubSeq(s, i, i)
From(s, i) == SubSeq(s, i, Len(s))

\* the characters of a string, as a set
CharSet(chars) == {CharAt(chars, i) : i \in 1..Len(chars)}
UpperSet == CharSet(UpperChars)
LowerSet == CharSet(LowerChars)
DigitSet == CharSet(DigitChars)

LowerTable ==
    [c \in UpperSet |->
        CharAt(LowerChars, CHOOSE i \in 1..Len(UpperChars) : CharAt(UpperChars, i) = c)]

LowerChar(c) == IF c \in UpperSet THEN LowerTable[c] ELSE c

\* str.lower(), halving the string so that long texts do not nest deeply
RECURSIVE Lower(_)
Lower(s) ==
    IF s = "" THEN ""
    ELSE IF Len(s) = 1 THEN LowerChar(s)
    ELSE LET m == Len(s) \div 2
         IN Lower(SubSeq(s, 1, m)) \o Lower(SubSeq(s, m + 1, Len(s)))

\* s * n
RECURSIVE Repeat(_, _)
Repeat(s, n) ==
    IF n = 0 THEN ""
    ELSE IF n % 2 = 1 THEN s \o Repeat(s, n - 1)
    ELSE LET h == Repeat(s, n \div 2) IN h \o h

\* s.startswith(p)
StartsWith(s, p) == Len(p) <= Len(s) /\ SubSeq(s, 1, Len(p)) = p

\* s.endswith(p)
EndsWith(s, p) == Len(p) <= Len(s) /\ SubSeq(s, Len(s) - Len(p) + 1, Len(s)) = p

\* s[i..] starts with p (1-based i)
OccursAt(s, p, i) == i >= 1 /\ i + Len(p) - 1 <= Len(s) /\ SubSeq(s, i, i + Len(p) - 1) = p

\* p in s
Contains(s, p) == \E i \in 1..(Len(s) - Len(p) + 1) : OccursAt(s, p, i)

\* s.find(p, i): the first index >= i where p occurs in s, 0 when there is none
Find(s, p, i) ==
    LET hits == {k \in i..(Len(s) - Len(p) + 1) : OccursAt(s, p, k)}
    IN IF hits = {} THEN 0 ELSE CHOOSE k \in hits : \A h \in hits : k <= h

\* s.replace(p, ""): every non-overlapping occurrence, left to right
RECURSIVE RemoveAll(_, _)
RemoveAll(s, p) ==
    LET k == Find(s, p, 1)
    IN IF k = 0 THEN s
       ELSE SubSeq(s, 1, k - 1) \o RemoveAll(From(s, k + Len(p)), p)

\* whitespace: str.split, str.strip and \s
SpaceSet == {" ", "\n", "\t"}
IsSpace(c) == c \in SpaceSet

\* the first index >= i of a whitespace (space = TRUE) or other character, 0 when none
FindSpace(s, i, space) ==
    LET hits == {k \in i..Len(s) : IsSpace(CharAt(s, k)) = space}
    IN IF hits = {} THEN 0 ELSE CHOOSE k \in hits : \A h \in hits : k <= h

\* s.split(): the maximal runs of non-whitespace characters, in order
RECURSIVE Split(_)
Split(s) ==
    LET a == FindSpace(s, 1, FALSE)
        b == FindSpace(s, a, TRUE)
    IN IF a = 0 THEN <<>>
       ELSE IF b = 0 THEN <<From(s, a)>>
       ELSE <<SubSeq(s, a, b - 1)>> \o Split(From(s, b))

\* s.split(sep) for a non-empty separator
RECURSIVE SplitOn(_, _)
SplitOn(s, sep) ==
    LET k == Find(s, sep, 1)
    IN IF k = 0 THEN <<s>>
       ELSE <<SubSeq(s, 1, k - 1)>> \o SplitOn(From(s, k + Len(sep)), sep)

\* sep.join(ws)
RECURSIVE Join(_, _)
Join(ws, sep) ==
    IF ws = <<>> THEN ""
    ELSE IF Len(ws) = 1 THEN ws[1]
    ELSE ws[1] \o sep \o Join(Tail(ws), sep)

\* s.strip()
Strip(s) ==
    LET a == FindSpace(s, 1, FALSE)
        last == {k \in 1..Len(s) : ~IsSpace(CharAt(s, k)) /\ \A h \in (k + 1)..Len(s) : IsSpace(CharAt(s, h))}
    IN IF a = 0 THEN "" ELSE SubSeq(s, a, CHOOSE k \in last : TRUE)

\* the elements of a sequence
Range(f) == {f[i] : i \in DOMAIN f}

\* list.remove(x): without the first element equal to x
RemoveFirst(l, x) ==
    IF \E i \in DOMAIN l : l[i] = x
    THEN LET k == CHOOSE i \in DOMAIN l : l[i] = x /\ \A j \in 1..(i - 1) : l[j] # x
         IN SubSeq(l, 1, k - 1) \o SubSeq(l, k + 1, Len(l))
    ELSE l

(***************************************************************************)
(* fuzz.ratio (fuzzywuzzy): 100 * 2*M / (len(s1) + len(s2)), rounded to    *)
(* the nearest integer (Python round: halves go to the even integer), with *)
(* M the number of matched characters (the longest common subsequence, as  *)
(* python-Levenshtein's matcher computes it); 0 when a string is empty.    *)
(***************************************************************************)
RECURSIVE LcsRow(_, _, _, _)
LcsRow(prev, c, t, acc) ==
    LET j == Len(acc) + 1
        diag == IF j = 1 THEN 0 ELSE prev[j - 1]
        left == IF j = 1 THEN 0 ELSE acc[j - 1]
    IN IF j > Len(t) THEN acc
       ELSE LcsRow(prev, c, t,
                   Append(acc, IF c = CharAt(t, j) THEN diag + 1 ELSE Max(prev[j], left)))

\* row after row; a row without columns stays as it is
RECURSIVE LcsRows(_, _, _)
LcsRows(s, t, prev) ==
    IF s = "" \/ prev = <<>> THEN prev
    ELSE LcsRows(From(s, 2), t, LcsRow(prev, CharAt(s, 1), t, <<>>))

Lcs(s, t) ==
    IF s = "" \/ t = "" THEN 0
    ELSE LcsRows(s, t, [j \in 1..Len(t) |-> 0])[Len(t)]

\* int(round(num / den)) for num >= 0, den > 0
RoundDiv(num, den) ==
    LET q == num \div den
        r == num % den
    IN IF 2 * r < den THEN q
       ELSE IF 2 * r > den THEN q + 1
       ELSE IF q % 2 = 0 THEN q ELSE q + 1

ratio(s1, s2) ==
    IF s1 = s2 THEN 100
    ELSE IF s1 = "" \/ s2 = "" THEN 0
    ELSE RoundDiv(200 * Lcs(s1, s2), Len(s1) + Len(s2))

(***************************************************************************)
(* deduplication.py                                                        *)
(***************************************************************************)
remove_phrases ==
    << "free:", "free ", "sold out:", "sold out ",
       "cancelled:", "cancelled ", "postponed:",
       "- seattle", "| seattle", "(seattle)",
       "- wa", "| wa" >>

RECURSIVE RemovePhrases(_, _)
RemovePhrases(s, phrases) ==
    IF s = "" \/ phrases = <<>> THEN s
    ELSE RemovePhrases(RemoveAll(s, Head(phrases)), Tail(phrases))

normalize_title(title) ==
    Strip(Join(Split(RemovePhrases(Lower(title), remove_phrases)), " "))

\* len(description or "")
DescLen(description) == IF description = None THEN 0 ELSE Len(description[1])

\* event.description and len(event.description) > len(existing.description or "")
MoreInformation(event, existing) ==
    /\ event.description # None
    /\ event.description[1] # ""
    /\ Len(event.description[1]) > DescLen(existing.description)

exact_key(event) == normalize_title(event.title) \o ":" \o event.dateStart

(***************************************************************************)
(* The inputs of deduplicate_events                                        *)
(***************************************************************************)
MaxEvents == 3

\* Raw titles.  "Free: Jazz Night" and "jazz night" normalize to the same
\* title; "jazz night" scores 80 against both "jazz night live" and
\* "late jazz night", which score 67 against each other.
Titles == {"Free: Jazz Night", "jazz night", "Jazz Night Live", "Late Jazz Night"}
Descriptions == {None, Some("a"), Some("abc")}
Thresholds == {67, 80, 81}

\* every record on the first date; on the second date the records titled "jazz night"
Events ==
    [title : Titles, description : Descriptions, dateStart : {"2026-01-10"}]
    \cup [title : {"jazz night"}, description : {None, Some("abc")}, dateStart : {"2026-01-11"}]

EventLists == UNION {[1..n -> Events] : n \in 0..MaxEvents}

\* normalize_title and fuzz.ratio on the titles of the model, computed once
NormalizedTitle == [t \in Titles |-> normalize_title(t)]
NormalizedTitles == {NormalizedTitle[t] : t \in Titles}
TitleRatio == [p \in NormalizedTitles \X NormalizedTitles |-> ratio(p[1], p[2])]

ExactKey == [e \in Events |-> NormalizedTitle[e.title] \o ":" \o e.dateStart]

\* fuzz.ratio(normalized_title, normalize_title(existing.title)) >= similarity_threshold
Similar(event, existing, threshold) ==
    TitleRatio[<<NormalizedTitle[event.title], NormalizedTitle[existing.title]>>] >= threshold

(***************************************************************************)
(* deduplicate_events: one iteration of the loop over events, on the pair  *)
(* (deduplicated, seen_keys)                                               *)
(***************************************************************************)
\* FuzzyMatches without the comparison of the dates (lines 36-37)
FuzzyMatches_AnyDate(kept, event, threshold) ==
    {i \in DOMAIN kept : Similar(event, kept[i], threshold)}

\* the kept records the inner loop stops at: same date, similar title
FuzzyMatches(kept, event, threshold) ==
    {i \in DOMAIN kept : kept[i].dateStart = event.dateStart /\ Similar(event, kept[i], threshold)}

FirstOf(S) == CHOOSE i \in S : \A j \in S : i <= j

\* DedupIteration without the test of the exact key (lines 29-31)
DedupIteration_NoExactCheck(st, event, threshold) ==
    LET key == ExactKey[event]
        hits == FuzzyMatches(st.deduplicated, event, threshold)
        accepted == [deduplicated |-> Append(st.deduplicated, event),
                     seen_keys |-> st.seen_keys \cup {key}]
    IN IF hits # {}
       THEN LET existing == st.deduplicated[FirstOf(hits)]
            IN IF MoreInformation(event, existing)
               THEN [deduplicated |-> Append(RemoveFirst(st.deduplicated, existing), event),
                     seen_keys |-> st.seen_keys \cup {key}]
               ELSE st
       ELSE accepted

\* DedupIteration with the replacement put at the place of the replaced
\* record (lines 47-48 as an assignment to the list element)
DedupIteration_ReplaceInPlace(st, event, threshold) ==
    LET key == ExactKey[event]
        hits == FuzzyMatches(st.deduplicated, event, threshold)
        accepted == [deduplicated |-> Append(st.deduplicated, event),
                     seen_keys |-> st.seen_keys \cup {key}]
    IN IF key \in st.seen_keys THEN st
       ELSE IF hits # {}
            THEN LET existing == st.deduplicated[FirstOf(hits)]
                 IN IF MoreInformation(event, existing)
                    THEN [deduplicated |-> [st.deduplicated EXCEPT ![FirstOf(hits)] = event],
                          seen_keys |-> st.seen_keys \cup {key}]
                    ELSE st
            ELSE accepted

\* DedupIteration with a replacement that does not register its key (no
\* line 49)
DedupIteration_ReplaceUnregistered(st, event, threshold) ==
    LET key == ExactKey[event]
        hits == FuzzyMatches(st.deduplicated, event, threshold)
        accepted == [deduplicated |-> Append(st.deduplicated, event),
                     seen_keys |-> st.seen_keys \cup {key}]
    IN IF key \in st.seen_keys THEN st
       ELSE IF hits # {}
            THEN LET existing == st.deduplicated[FirstOf(hits)]
                 IN IF MoreInformation(event, existing)
                    THEN [deduplicated |-> Append(RemoveFirst(st.deduplicated, existing), event),
                          seen_keys |-> st.seen_keys]
                    ELSE st
            ELSE accepted

\* DedupIteration with the inner loop stopping at the last similar kept
\* record instead of the first
DedupIteration_LastMatch(st, event, threshold) ==
    LET key == ExactKey[event]
        hits == FuzzyMatches(st.deduplicated, event, threshold)
        accepted == [deduplicated |-> Append(st.deduplicated, event),
                     seen_keys |-> st.seen_keys \cup {key}]
    IN IF key \in st.seen_keys THEN st
       ELSE IF hits # {}
            THEN LET existing == st.deduplicated[CHOOSE i \in hits : \A j \in hits : i >= j]
                 IN IF MoreInformation(event, existing)
                    THEN [deduplicated |-> Append(RemoveFirst(st.deduplicated, existing), event),
                          seen_keys |-> st.seen_keys \cup {key}]
                    ELSE st
            ELSE accepted

DedupIteration(st, event, threshold) ==
    LET key == ExactKey[event]
        hits == FuzzyMatches(st.deduplicated, event, threshold)
        accepted == [deduplicated |-> Append(st.deduplicated, event),
                     seen_keys |-> st.seen_keys \cup {key}]
    IN IF key \in st.seen_keys THEN st
       ELSE IF hits # {}
            THEN LET existing == st.deduplicated[FirstOf(hits)]
                 IN IF MoreInformation(event, existing)
                    THEN [deduplicated |-> Append(RemoveFirst(st.deduplicated, existing), event),
                          seen_keys |-> st.seen_keys \cup {key}]
                    ELSE st
            ELSE accepted

RECURSIVE DedupLoop(_, _, _)
DedupLoop(st, evs, threshold) ==
    IF evs = <<>> THEN st
    ELSE DedupLoop(DedupIteration(st, Head(evs), threshold), Tail(evs), threshold)

\* the function as a whole
deduplicate_events(evs, threshold) ==
    IF evs = <<>> THEN <<>>
    ELSE DedupLoop([deduplicated |-> <<>>, seen_keys |-> {}], evs, threshold).deduplicated

(***************************************************************************)
(* deduplicate_events as a state machine                                   *)
(***************************************************************************)
DedupIdle ==
    /\ events = <<>>
    /\ similarity_threshold = 80
    /\ dedupPc = "idle"
    /\ idx = 0
    /\ deduplicated = <<>>
    /\ seen_keys = {}
    /\ dedupResult = <<>>

DedupInit ==
    /\ events \in EventLists
    /\ similarity_threshold \in Thresholds
    /\ dedupPc = "start"
    /\ idx = 0
    /\ deduplicated = <<>>
    /\ seen_keys = {}
    /\ dedupResult = <<>>

\* lines 17-21
DedupStart ==
    /\ dedupPc = "start"
    /\ IF events = <<>>
       THEN dedupPc' = "done"
       ELSE dedupPc' = "loop"
    /\ idx' = 1
    /\ deduplicated' = <<>>
    /\ seen_keys' = {}
    /\ dedupResult' = <<>>
    /\ UNCHANGED <<events, similarity_threshold>>
    /\ DedupFrame

\* lines 23-54, one event
DedupIterate ==
    /\ dedupPc = "loop"
    /\ idx <= Len(events)
    /\ LET st == DedupIteration([deduplicated |-> deduplicated, seen_keys |-> seen_keys],
                                events[idx], similarity_threshold)
       IN /\ deduplicated' = st.deduplicated
          /\ seen_keys' = st.seen_keys
    /\ idx' = idx + 1
    /\ UNCHANGED <<events, similarity_threshold, dedupPc, dedupResult>>
    /\ DedupFrame

\* line 56
DedupReturn ==
    /\ dedupPc = "loop"
    /\ idx > Len(events)
    /\ dedupResult' = deduplicated
    /\ dedupPc' = "done"
    /\ UNCHANGED <<events, similarity_threshold, idx, deduplicated, seen_keys>>
    /\ DedupFrame

(***************************************************************************)
(* detectors/tone.py                                                       *)
(*                                                                         *)
(* A confidence is kept in hundredths: 0.6 is 60.                          *)
(***************************************************************************)
ToneTypes == {"polite", "neutral", "frustrated", "hostile", "dramatic"}
ClassificationTypes == {"friendly", "neutral", "adversarial", "hateful"}

HOSTILE_KEYWORDS ==
    << "hate", "awful", "terrible", "worst", "garbage", "trash",
       "stupid", "idiots", "morons", "losers", "pathetic",
       "fuck", "shit", "damn", "hell", "ass" >>

FRUSTRATED_KEYWORDS ==
    << "annoying", "frustrated", "tired of", "sick of", "fed up",
       "ridiculous", "absurd", "unbelievable", "seriously" >>

DRAMATIC_KEYWORDS ==
    << "never", "always", "everyone", "nobody", "completely",
       "absolutely", "literally", "worst ever", "best ever",
       "!!!", "???", "omg", "wtf" >>

POLITE_KEYWORDS ==
    << "please", "thank you", "appreciate", "kind", "helpful",
       "great", "wonderful", "love", "enjoy", "welcome" >>

\* sum(1 for kw in keywords if kw in lower_text)
KeywordCount(keywords, lower_text) ==
    Cardinality({i \in DOMAIN keywords : Contains(lower_text, keywords[i])})

ToneResult(tone, confidence, classification, trigger_phrase) ==
    [tone |-> tone, confidence |-> confidence,
     classification |-> classification, trigger_phrase |-> trigger_phrase]

\* a slip in the cascade: the frustrated set is tested before the hostile set
classify_tone_fallback_FrustratedFirst(text) ==
    LET lower_text == Lower(text)
        hostile_count == KeywordCount(HOSTILE_KEYWORDS, lower_text)
        frustrated_count == KeywordCount(FRUSTRATED_KEYWORDS, lower_text)
        dramatic_count == KeywordCount(DRAMATIC_KEYWORDS, lower_text)
        polite_count == KeywordCount(POLITE_KEYWORDS, lower_text)
    IN IF frustrated_count >= 2
       THEN ToneResult("frustrated", Min(50 + frustrated_count * 10, 80), "adversarial", None)
       ELSE IF hostile_count >= 2
       THEN ToneResult("hostile", Min(50 + hostile_count * 10, 80), "adversarial", None)
       ELSE IF dramatic_count >= 2
       THEN ToneResult("dramatic", Min(50 + dramatic_count * 10, 80), "neutral", None)
       ELSE IF polite_count >= 2
       THEN ToneResult("polite", Min(50 + polite_count * 10, 80), "friendly", None)
       ELSE ToneResult("neutral", 60, "neutral", None)

classify_tone_fallback(text) ==
    LET lower_text == Lower(text)
        hostile_count == KeywordCount(HOSTILE_KEYWORDS, lower_text)
        frustrated_count == KeywordCount(FRUSTRATED_KEYWORDS, lower_text)
        dramatic_count == KeywordCount(DRAMATIC_KEYWORDS, lower_text)
        polite_count == KeywordCount(POLITE_KEYWORDS, lower_text)
    IN IF hostile_count >= 2
       THEN ToneResult("hostile", Min(50 + hostile_count * 10, 80), "adversarial", None)
       ELSE IF frustrated_count >= 2
       THEN ToneResult("frustrated", Min(50 + frustrated_count * 10, 80), "adversarial", None)
       ELSE IF dramatic_count >= 2
       THEN ToneResult("dramatic", Min(50 + dramatic_count * 10, 80), "neutral", None)
       ELSE IF polite_count >= 2
       THEN ToneResult("polite", Min(50 + polite_count * 10, 80), "friendly", None)
       ELSE ToneResult("neutral", 60, "neutral", None)

\* text[:500], the text put into the prompt
PromptChars == 500
Prompt(text) == SubSeq(text, 1, Min(Len(text), PromptChars))

\* if not api_key: api_key = os.getenv('GOOGLE_API_KEY')
Truthy(opt) == opt # None /\ opt[1] # ""
ResolvedKey(key, env) == IF Truthy(key) THEN key ELSE env

(***************************************************************************)
(* What the capability may answer.  A body is the text of a JSON document  *)
(* or of something that is none; an answer is a body as the capability     *)
(* wraps it.  json marks what json.loads makes of the body alone.          *)
(***************************************************************************)
ResponseBodies ==
    << [text |-> "{\"tone\": \"hostile\", \"confidence\": 0.9, \"classification\": \"hateful\", \"trigger_phrase\": \"you people\"}",
        json |-> "object",
        value |-> [tone |-> "hostile", confidence |-> 90, classification |-> "hateful",
                   trigger_phrase |-> "you people"]],
       [text |-> "{\"tone\": \"frustrated\", \"confidence\": 0.8, \"classification\": \"adversarial\"}",
        json |-> "object",
        value |-> [tone |-> "frustrated", confidence |-> 80, classification |-> "adversarial"]],
       [text |-> "{\"tone\": \"polite\"}",
        json |-> "object",
        value |-> [tone |-> "polite"]],
       [text |-> "{}",
        json |-> "object",
        value |-> <<>>],
       [text |-> "{\"tone\": \"angry\", \"confidence\": 1.5, \"classification\": \"spam\"}",
        json |-> "object",
        value |-> [tone |-> "angry", confidence |-> 150, classification |-> "spam"]],
       [text |-> "[\"hostile\", 0.9, \"hateful\"]", json |-> "array", value |-> <<>>],
       [text |-> "\"hostile\"", json |-> "string", value |-> <<>>],
       [text |-> "null", json |-> "null", value |-> <<>>],
       [text |-> "{\"tone\": \"hostile\", \"confi", json |-> "invalid", value |-> <<>>],
       [text |-> "The tone is hostile.", json |-> "invalid", value |-> <<>>],
       [text |-> "", json |-> "invalid", value |-> <<>>] >>

\* The code fence.  A TLA+ string admits no backquote: the model writes the
\* backquote character as ^, so the three-backquote fence is ^^^.
Fence == "^^^"

Wrappings == {"plain", "padded", "fenced", "fenced_json", "prose"}

Wrap(w, body) ==
    CASE w = "plain" -> body
      [] w = "padded" -> "\n" \o body \o " \n"
      [] w = "fenced" -> Fence \o "\n" \o body \o "\n" \o Fence
      [] w = "fenced_json" -> Fence \o "json\n" \o body \o "\n" \o Fence \o "\n"
      [] w = "prose" -> "Here is the JSON:\n" \o Fence \o "json\n" \o body \o "\n" \o Fence

Answers ==
    {[body |-> b, wrapping |-> w, text |-> Wrap(w, ResponseBodies[b].text)] :
        b \in DOMAIN ResponseBodies, w \in Wrappings}

NoAnswer == [body |-> 0, wrapping |-> "none", text |-> ""]

\* json.loads: the value of a JSON document, or JSONDecodeError
json_loads(text) ==
    LET docs == {b \in DOMAIN ResponseBodies :
                    ResponseBodies[b].json # "invalid" /\ ResponseBodies[b].text = text}
    IN IF docs = {} THEN [raised |-> TRUE]
       ELSE LET b == CHOOSE b \in docs : TRUE
            IN [raised |-> FALSE, type |-> ResponseBodies[b].json, value |-> ResponseBodies[b].value]

\* lines 134-140: strip, drop a leading code fence and its "json" tag, strip
CleanResponse(response_text) ==
    LET stripped == Strip(response_text)
        fenced == SplitOn(stripped, Fence)[2]
    IN IF StartsWith(stripped, Fence)
       THEN Strip(IF StartsWith(fenced, "json") THEN From(fenced, 5) ELSE fenced)
       ELSE Strip(stripped)

\* dict.get(key, default)
Get(d, key, default) == IF key \in DOMAIN d THEN d[key] ELSE default

\* lines 142-148: the ToneResult made of the answer, raised when json.loads
\* raises or the value is no dict (it has no .get)
ToneFromResponse(response_text) ==
    LET parsed == json_loads(CleanResponse(response_text))
    IN IF parsed.raised THEN [raised |-> TRUE]
       ELSE IF parsed.type # "object" THEN [raised |-> TRUE]
       ELSE [raised |-> FALSE,
             result |-> ToneResult(Get(parsed.value, "tone", "neutral"),
                                   Get(parsed.value, "confidence", 70),
                                   Get(parsed.value, "classification", "neutral"),
                                   IF "trigger_phrase" \in DOMAIN parsed.value
                                   THEN Some(parsed.value.trigger_phrase) ELSE None)]

(***************************************************************************)
(* The inputs of classify_tone                                             *)
(***************************************************************************)
MaxToneFragments == 2

ToneFragments ==
    {"awful TRASH", "hate", "annoying, seriously", "always!!!", "never",
     "please, thank you", "kind"}

\* a text whose keywords lie beyond the first 500 characters
LongText == Repeat("so ", 170) \o "awful trash"

ToneTexts ==
    {Join(ws, " ") : ws \in UNION {[1..n -> ToneFragments] : n \in 0..MaxToneFragments}}
    \cup {LongText}

ApiKeys == {None, Some(""), Some("key")}
EnvKeys == {None, Some("envkey")}

(***************************************************************************)
(* The inputs of analyze_content: content items whose body is made of a    *)
(* few fragments, with or without a title                                  *)
(***************************************************************************)
MaxBodyFragments == 2

BodyFragments ==
    << "An old silent pond, a frog jumps into the pond: splash! Silence again.",
       "I'm leaving, this sub is a Trump echo chamber",
       "awful trash at r/Portland and https://www.reddit.com/r/SeattleWA/comments/abc123/some_title/def456",
       "see r/Portland or r/seattle",
       "nice weather today" >>

ContentTitles == {None, Some("awful trash")}

ContentBodies ==
    {Join(fs, " ") : fs \in UNION {[1..n -> Range(BodyFragments)] : n \in 1..MaxBodyFragments}}

\* ContentAnalysisRequest (models.py)
ContentItems ==
    {[type |-> IF title = None THEN "comment" ELSE "post",
      body |-> body,
      author |-> "alice",
      subreddit |-> "Seattle",
      id |-> IF title = None THEN "t1_abc" ELSE "t3_abc",
      title |-> title] : body \in ContentBodies, title \in ContentTitles}

\* lines 678-680: the text the detectors are given
ContentText(item) ==
    IF Truthy(item.title) THEN item.title[1] \o "\n\n" \o item.body ELSE item.body

ContentTexts == {ContentText(item) : item \in ContentItems}

NoResult == <<>>

\* classify_tone_fallback and the decoding of an answer on the inputs of
\* the model, computed once
FallbackOf == [t \in ToneTexts \cup ContentTexts |-> classify_tone_fallback(t)]
DecodedAnswer == [a \in Answers |-> ToneFromResponse(a.text)]

\* a slip in the handler: the fallback is given the truncated prompt text
ToneAfterResponse_TruncatedText(text, answer) ==
    IF DecodedAnswer[answer].raised
    THEN classify_tone_fallback(Prompt(text))
    ELSE DecodedAnswer[answer].result

\* lines 134-152: what classify_tone returns once the capability has
\* answered: the decoded ToneResult, or the fallback on the text when the
\* decoding raised
ToneAfterResponse(text, answer) ==
    IF DecodedAnswer[answer].raised THEN FallbackOf[text] ELSE DecodedAnswer[answer].result

(***************************************************************************)
(* classify_tone as a state machine: the capability call is the one step   *)
(* that waits for the outside                                              *)
(***************************************************************************)
ToneIdle ==
    /\ toneText = ""
    /\ api_key = None
    /\ GOOGLE_API_KEY = None
    /\ tonePc = "idle"
    /\ capability = [state |-> "unused", prompt |-> "", answer |-> NoAnswer]
    /\ toneResult = NoResult

ToneInit ==
    /\ toneText \in ToneTexts
    /\ api_key \in ApiKeys
    /\ GOOGLE_API_KEY \in EnvKeys
    /\ tonePc = "start"
    /\ capability = [state |-> "unused", prompt |-> "", answer |-> NoAnswer]
    /\ toneResult = NoResult

\* lines 94-98: no key, the fallback answers
ToneNoKey ==
    /\ tonePc = "start"
    /\ ~Truthy(ResolvedKey(api_key, GOOGLE_API_KEY))
    /\ toneResult' = FallbackOf[toneText]
    /\ tonePc' = "done"
    /\ UNCHANGED <<toneText, api_key, GOOGLE_API_KEY, capability>>
    /\ ToneFrame

\* lines 100-132: the prompt is built and model.generate_content is called
ToneCall ==
    /\ tonePc = "start"
    /\ Truthy(ResolvedKey(api_key, GOOGLE_API_KEY))
    /\ capability' = [state |-> "pending", prompt |-> Prompt(toneText), answer |-> NoAnswer]
    /\ tonePc' = "calling"
    /\ UNCHANGED <<toneText, api_key, GOOGLE_API_KEY, toneResult>>
    /\ ToneFrame

\* the import, the call or response.text raises: lines 150-152
CapabilityRaises ==
    /\ tonePc = "calling"
    /\ capability' = [capability EXCEPT !.state = "raised"]
    /\ toneResult' = FallbackOf[toneText]
    /\ tonePc' = "done"
    /\ UNCHANGED <<toneText, api_key, GOOGLE_API_KEY>>
    /\ ToneFrame

\* the call returns an answer: lines 134-152
CapabilityReturns ==
    /\ tonePc = "calling"
    /\ \E answer \in Answers :
        /\ capability' = [capability EXCEPT !.state = "returned", !.answer = answer]
        /\ toneResult' = ToneAfterResponse(toneText, answer)
    /\ tonePc' = "done"
    /\ UNCHANGED <<toneText, api_key, GOOGLE_API_KEY>>
    /\ ToneFrame

(***************************************************************************)
(* Regular expressions (re.compile(..., re.I) and pattern.search): a       *)
(* pattern is a tree, Ends gives every position a match of the tree that   *)
(* starts at position i can end at, and search asks for some start with a  *)
(* match.  The patterns below are written as the trees of the source's     *)
(* pattern strings.                                                        *)
(***************************************************************************)
Lit(s) == [t |-> "lit", s |-> s]
Alt(rs) == [t |-> "alt", rs |-> rs]
Cat(rs) == [t |-> "cat", rs |-> rs]
Opt(r) == [t |-> "opt", r |-> r]
\* (a|b|c) over literal alternatives
OneOf(ws) == Alt([k \in DOMAIN ws |-> Lit(ws[k])])
\* \b
WordB == [t |-> "wordb"]
\* . and .* (no newline: the patterns are compiled without re.S)
AnyChar == [t |-> "any"]
AnyStar == [t |-> "anystar"]
\* \s* and \s+
SpaceStar == [t |-> "spaces", min |-> 0]
SpacePlus == [t |-> "spaces", min |-> 1]

\* \w
WordCharSet == LowerSet \cup UpperSet \cup DigitSet \cup {"_"}
IsWordChar(c) == c \in WordCharSet

\* a character class [chars] and its complement [^chars]
Class(chars) == [neg |-> FALSE, chars |-> chars]
NotClass(chars) == [neg |-> TRUE, chars |-> chars]
InClass(c, class) == (c \in class.chars) # class.neg

WordAt(s, i) == i >= 1 /\ i <= Len(s) /\ IsWordChar(CharAt(s, i))

\* \b at position i: between s[i-1] and s[i], exactly one is a word character
AtWordBoundary(s, i) == WordAt(s, i - 1) # WordAt(s, i)

\* the positions j >= i such that s[i..j-1] consists of characters of the class
RunEnds(s, i, class) ==
    {j \in i..(Len(s) + 1) : \A k \in i..(j - 1) : InClass(CharAt(s, k), class)}

\* what . matches
NotNewline == NotClass({"\n"})

RECURSIVE Ends(_, _, _), EndsCat(_, _, _, _)
Ends(r, s, i) ==
    CASE r.t = "lit" -> IF OccursAt(s, r.s, i) THEN {i + Len(r.s)} ELSE {}
      [] r.t = "alt" -> UNION {Ends(r.rs[k], s, i) : k \in DOMAIN r.rs}
      [] r.t = "cat" -> EndsCat(r.rs, 1, s, {i})
      [] r.t = "opt" -> {i} \cup Ends(r.r, s, i)
      [] r.t = "wordb" -> IF AtWordBoundary(s, i) THEN {i} ELSE {}
      [] r.t = "any" -> IF i <= Len(s) /\ InClass(CharAt(s, i), NotNewline) THEN {i + 1} ELSE {}
      [] r.t = "anystar" -> RunEnds(s, i, NotNewline)
      [] r.t = "spaces" -> {j \in RunEnds(s, i, Class(SpaceSet)) : j - i >= r.min}

EndsCat(rs, k, s, starts) ==
    IF k > Len(rs) \/ starts = {} THEN starts
    ELSE EndsCat(rs, k + 1, s, UNION {Ends(rs[k], s, i) : i \in starts})

\* re.search(tree, s): some start position has a match
search(r, s) == \E i \in 1..(Len(s) + 1) : Ends(r, s, i) # {}

\* a compiled pattern: its source string (pattern.pattern) and its tree
Compile(pattern, tree) == [pattern |-> pattern, re |-> tree]

\* pattern.search(text) of a pattern compiled with re.I
Search(p, text) == search(p.re, Lower(text))

(***************************************************************************)
(* detectors/farewell.py                                                   *)
(***************************************************************************)
ThisOrThe == OneOf(<<"this", "the">>)
SubOrSubreddit == OneOf(<<"sub", "subreddit">>)
EchoChamber == Cat(<<Lit("echo"), Opt(AnyChar), Lit("chamber")>>)
CircleJerk == Cat(<<Lit("circle"), Opt(AnyChar), Lit("jerk")>>)
HiveMind == Cat(<<Lit("hive"), Opt(AnyChar), Lit("mind")>>)
LeavingWords == OneOf(<<"leaving", "unsubbing", "done">>)

UNSUBSCRIBE_PATTERNS ==
    << Compile("\\b(i('m|am)|i('ve| have)) (unsubscrib(ed|ing)|leav(ing|e)|done with|quit(ting)?)\\b",
           Cat(<<WordB,
                 Alt(<<Cat(<<Lit("i"), OneOf(<<"'m", "am">>)>>),
                       Cat(<<Lit("i"), OneOf(<<"'ve", " have">>)>>)>>),
                 Lit(" "),
                 Alt(<<Cat(<<Lit("unsubscrib"), OneOf(<<"ed", "ing">>)>>),
                       Cat(<<Lit("leav"), OneOf(<<"ing", "e">>)>>),
                       Lit("done with"),
                       Cat(<<Lit("quit"), Opt(Lit("ting"))>>)>>),
                 WordB>>)),
       Compile("\\bunsubscribe[d]?\\s+(from\\s+)?(this|the) (sub|subreddit)\\b",
           Cat(<<WordB, Lit("unsubscribe"), Opt(Lit("d")), SpacePlus,
                 Opt(Cat(<<Lit("from"), SpacePlus>>)),
                 ThisOrThe, Lit(" "), SubOrSubreddit, WordB>>)),
       Compile("\\b(this|the) (sub|subreddit) (is|has) (gone|become|turned) (to\\s+)?(shit|trash|garbage|toxic)",
           Cat(<<WordB, ThisOrThe, Lit(" "), SubOrSubreddit, Lit(" "),
                 OneOf(<<"is", "has">>), Lit(" "),
                 OneOf(<<"gone", "become", "turned">>), Lit(" "),
                 Opt(Cat(<<Lit("to"), SpacePlus>>)),
                 OneOf(<<"shit", "trash", "garbage", "toxic">>)>>)),
       Compile("\\b(goodbye|farewell|adios|so long|peace out),?\\s*(r\\/|this sub|everyone)",
           Cat(<<WordB, OneOf(<<"goodbye", "farewell", "adios", "so long", "peace out">>),
                 Opt(Lit(",")), SpaceStar,
                 OneOf(<<"r/", "this sub", "everyone">>)>>)),
       Compile("\\bused to (love|enjoy|like) this (sub|place|subreddit)\\b",
           Cat(<<WordB, Lit("used to "), OneOf(<<"love", "enjoy", "like">>),
                 Lit(" this "), OneOf(<<"sub", "place", "subreddit">>), WordB>>)),
       Compile("\\b(this|the) sub(reddit)? (used to be|was) (good|great|better)\\b",
           Cat(<<WordB, ThisOrThe, Lit(" sub"), Opt(Lit("reddit")), Lit(" "),
                 OneOf(<<"used to be", "was">>), Lit(" "),
                 OneOf(<<"good", "great", "better">>), WordB>>)),
       Compile("\\b(i('m| am)|time to) (out|leaving|gone|outta here)\\b",
           Cat(<<WordB,
                 Alt(<<Cat(<<Lit("i"), OneOf(<<"'m", " am">>)>>), Lit("time to")>>),
                 Lit(" "),
                 OneOf(<<"out", "leaving", "gone", "outta here">>), WordB>>)),
       Compile("\\bthat's it,?\\s*(i'm|i am) (done|out|leaving)\\b",
           Cat(<<WordB, Lit("that's it"), Opt(Lit(",")), SpaceStar,
                 OneOf(<<"i'm", "i am">>), Lit(" "),
                 OneOf(<<"done", "out", "leaving">>), WordB>>)),
       Compile("\\b(can't|cannot) (take|stand|handle) this (sub|subreddit) anymore\\b",
           Cat(<<WordB, OneOf(<<"can't", "cannot">>), Lit(" "),
                 OneOf(<<"take", "stand", "handle">>), Lit(" this "),
                 SubOrSubreddit, Lit(" anymore"), WordB>>)),
       Compile("\\b(leaving|unsubbing|done)\\b.*\\b(toxic|echo.?chamber|circle.?jerk|hive.?mind)\\b",
           Cat(<<WordB, LeavingWords, WordB, AnyStar, WordB,
                 Alt(<<Lit("toxic"), EchoChamber, CircleJerk, HiveMind>>), WordB>>)),
       Compile("\\b(toxic|echo.?chamber|circle.?jerk)\\b.*\\b(leaving|unsubbing|done)\\b",
           Cat(<<WordB, Alt(<<Lit("toxic"), EchoChamber, CircleJerk>>), WordB,
                 AnyStar, WordB, LeavingWords, WordB>>)) >>

CONTEXT_KEYWORDS ==
    << "downhill", "used to be", "anymore", "toxic", "echo chamber", "circlejerk",
       "hivemind", "unsubscribed", "unsubscribing", "leaving", "goodbye", "farewell",
       "done with", "fed up", "last straw", "final straw" >>

NEGATIVE_PATTERNS ==
    << Compile("\\bhow (do|can) (i|you) unsubscribe\\b",
           Cat(<<WordB, Lit("how "), OneOf(<<"do", "can">>), Lit(" "),
                 OneOf(<<"i", "you">>), Lit(" unsubscribe"), WordB>>)),
       Compile("\\b(should i|thinking about) (unsubscrib|leav)",
           Cat(<<WordB, OneOf(<<"should i", "thinking about">>), Lit(" "),
                 OneOf(<<"unsubscrib", "leav">>)>>)),
       Compile("\\bdon't (leave|unsubscribe)\\b",
           Cat(<<WordB, Lit("don't "), OneOf(<<"leave", "unsubscribe">>), WordB>>)),
       Compile("\\bwhy (did|are) (you|people) (leaving|unsubscribing)\\b",
           Cat(<<WordB, Lit("why "), OneOf(<<"did", "are">>), Lit(" "),
                 OneOf(<<"you", "people">>), Lit(" "),
                 OneOf(<<"leaving", "unsubscribing">>), WordB>>)) >>

QUICK_FILTER_KEYWORDS ==
    << "unsubscrib", "leaving", "leave", "goodbye", "farewell", "done with", "quit",
       "toxic", "echo chamber", "circlejerk", "i'm out", "im out" >>

\* any(kw in lower_text for kw in QUICK_FILTER_KEYWORDS)
could_be_farewell(text) ==
    \E k \in DOMAIN QUICK_FILTER_KEYWORDS : Contains(Lower(text), QUICK_FILTER_KEYWORDS[k])

\* FarewellResult; confidence in hundredths; the defaults are 0.0 and []
FarewellResult(detected, confidence, matched_patterns) ==
    [detected |-> detected, confidence |-> confidence, matched_patterns |-> matched_patterns]

\* pattern.pattern of the patterns that match, in list order
RECURSIVE MatchedFrom(_, _, _)
MatchedFrom(patterns, k, text) ==
    IF k > Len(patterns) THEN <<>>
    ELSE (IF Search(patterns[k], text) THEN <<patterns[k].pattern>> ELSE <<>>)
             \o MatchedFrom(patterns, k + 1, text)

AnyMatches(patterns, text) == \E k \in DOMAIN patterns : Search(patterns[k], text)

FarewellThreshold == 50

\* detect_farewell without the check of NEGATIVE_PATTERNS (lines 111-113)
detect_farewell_NoVeto(text) ==
    LET matched_patterns == MatchedFrom(UNSUBSCRIBE_PATTERNS, 1, text)
    IN  IF matched_patterns = <<>> THEN FarewellResult(FALSE, 0, <<>>)
        ELSE LET base == Min(50 + Len(matched_patterns) * 15, 80)
                 context_matches == KeywordCount(CONTEXT_KEYWORDS, Lower(text))
                 confidence == Min(base + context_matches * 5, 95)
             IN  FarewellResult(confidence >= FarewellThreshold, confidence, matched_patterns)

\* detect_farewell without the cap at 0.95 (line 133)
detect_farewell_NoCap(text) ==
    IF AnyMatches(NEGATIVE_PATTERNS, text) THEN FarewellResult(FALSE, 0, <<>>)
    ELSE LET matched_patterns == MatchedFrom(UNSUBSCRIBE_PATTERNS, 1, text)
         IN  IF matched_patterns = <<>> THEN FarewellResult(FALSE, 0, <<>>)
             ELSE LET base == Min(50 + Len(matched_patterns) * 15, 80)
                      context_matches == KeywordCount(CONTEXT_KEYWORDS, Lower(text))
                      confidence == base + context_matches * 5
                  IN  FarewellResult(confidence >= FarewellThreshold, confidence, matched_patterns)

detect_farewell(text) ==
    IF AnyMatches(NEGATIVE_PATTERNS, text) THEN FarewellResult(FALSE, 0, <<>>)
    ELSE LET matched_patterns == MatchedFrom(UNSUBSCRIBE_PATTERNS, 1, text)
         IN  IF matched_patterns = <<>> THEN FarewellResult(FALSE, 0, <<>>)
             ELSE LET base == Min(50 + Len(matched_patterns) * 15, 80)
                      context_matches == KeywordCount(CONTEXT_KEYWORDS, Lower(text))
                      confidence == Min(base + context_matches * 5, 95)
                  IN  FarewellResult(confidence >= FarewellThreshold, confidence, matched_patterns)

\* detect_political_complaint, lines 75-83 and 142-160
SubredditIs ==
    Cat(<<ThisOrThe, Lit(" "), SubOrSubreddit, Lit(" "),
          OneOf(<<"is", "has become", "turned into">>), Lit(" "),
          Opt(Alt(<<Lit("a"), Cat(<<Lit("a"), Opt(Lit("n"))>>)>>)), Opt(Lit(" "))>>)
RightWing == Cat(<<Lit("right"), Opt(AnyChar), Lit("wing")>>)
SubKind == Alt(<<Lit("sub"), Lit("subreddit"), EchoChamber>>)
ChamberWords == Alt(<<EchoChamber, CircleJerk, HiveMind>>)
PoliticsWords == OneOf(<<"politics", "political", "partisan">>)
Plural(w) == Cat(<<Lit(w), Opt(Lit("s"))>>)

POLITICAL_COMPLAINT_PATTERNS ==
    << Compile("(this|the) (sub|subreddit) (is|has become|turned into) (a|an?)? ?(trump|maga|conservative|right.?wing|republican) (sub|subreddit|echo.?chamber)",
           Cat(<<SubredditIs,
                 Alt(<<Lit("trump"), Lit("maga"), Lit("conservative"), RightWing, Lit("republican")>>),
                 Lit(" "), SubKind>>)),
       Compile("(this|the) (sub|subreddit) (is|has become|turned into) (a|an?)? ?(leftist|liberal|progressive|democrat) (sub|subreddit|echo.?chamber)",
           Cat(<<SubredditIs,
                 OneOf(<<"leftist", "liberal", "progressive", "democrat">>),
                 Lit(" "), SubKind>>)),
       Compile("trump (sub|subreddit)",
           Cat(<<Lit("trump "), SubOrSubreddit>>)),
       Compile("(echo.?chamber|circle.?jerk|hive.?mind).*(politics|political|partisan)",
           Cat(<<ChamberWords, AnyStar, PoliticsWords>>)),
       Compile("(politics|political|partisan).*(echo.?chamber|circle.?jerk|hive.?mind)",
           Cat(<<PoliticsWords, AnyStar, ChamberWords>>)),
       Compile("biased (towards?|against) (the )?(left|right|conservatives?|liberals?|republicans?|democrats?)",
           Cat(<<Lit("biased "), Alt(<<Plural("toward"), Lit("against")>>), Lit(" "),
                 Opt(Lit("the ")),
                 Alt(<<Lit("left"), Lit("right"), Plural("conservative"), Plural("liberal"),
                       Plural("republican"), Plural("democrat")>>)>>)),
       Compile("all (you )?(people|guys|everyone) (here )?(are|vote) (the same|republican|democrat|trump|liberal)",
           Cat(<<Lit("all "), Opt(Lit("you ")), OneOf(<<"people", "guys", "everyone">>),
                 Lit(" "), Opt(Lit("here ")), OneOf(<<"are", "vote">>), Lit(" "),
                 OneOf(<<"the same", "republican", "democrat", "trump", "liberal">>)>>)) >>

\* line 149: r'trump|maga|conservative|right.?wing|republican'
RightLeaningMarkers ==
    Alt(<<Lit("trump"), Lit("maga"), Lit("conservative"), RightWing, Lit("republican")>>)
\* line 151: r'leftist|liberal|progressive|democrat'
LeftLeaningMarkers == OneOf(<<"leftist", "liberal", "progressive", "democrat">>)

PoliticalComplaintResult(detected, complaint_type, matched_pattern) ==
    [detected |-> detected, complaint_type |-> complaint_type, matched_pattern |-> matched_pattern]

detect_political_complaint(text) ==
    LET hits == {k \in DOMAIN POLITICAL_COMPLAINT_PATTERNS :
                    Search(POLITICAL_COMPLAINT_PATTERNS[k], text)}
    IN  IF hits = {} THEN PoliticalComplaintResult(FALSE, None, None)
        ELSE LET pattern == POLITICAL_COMPLAINT_PATTERNS[FirstOf(hits)]
                 lower_text == Lower(text)
                 complaint_type ==
                     IF search(RightLeaningMarkers, lower_text) THEN "right-leaning"
                     ELSE IF search(LeftLeaningMarkers, lower_text) THEN "left-leaning"
                     ELSE "general"
             IN  PoliticalComplaintResult(TRUE, Some(complaint_type), Some(pattern.pattern))

(***************************************************************************)
(* detectors/haiku.py                                                      *)
(***************************************************************************)
SYLLABLE_EXCEPTIONS ==
    [ the |-> 1, every |-> 3, everything |-> 4, beautiful |-> 3, different |-> 3,
      interesting |-> 4, probably |-> 3, actually |-> 4, basically |-> 4,
      literally |-> 4, obviously |-> 4, usually |-> 4, created |-> 3, really |-> 2,
      area |-> 3, idea |-> 3, poem |-> 2, poet |-> 2, being |-> 2, seeing |-> 2,
      doing |-> 2, going |-> 2, hours |-> 2, hour |-> 1, our |-> 1, fire |-> 2,
      hire |-> 2, tired |-> 2, wired |-> 2, higher |-> 2, lion |-> 2, quiet |-> 2,
      diet |-> 2, riot |-> 2, science |-> 2, violence |-> 3, seattle |-> 3,
      people |-> 2, little |-> 2, middle |-> 2, purple |-> 2, simple |-> 2,
      temple |-> 2, able |-> 2, table |-> 2, cable |-> 2, fable |-> 2 ]

\* re.search(r'[...]', s) for a character class
HasChar(s, class) == \E i \in 1..Len(s) : InClass(CharAt(s, i), class)

RECURSIVE Concat(_)
Concat(parts) ==
    IF parts = <<>> THEN ""
    ELSE IF Len(parts) = 1 THEN parts[1]
    ELSE LET m == Len(parts) \div 2
         IN Concat(SubSeq(parts, 1, m)) \o Concat(SubSeq(parts, m + 1, Len(parts)))

\* re.sub(r'[...]', repl, s) for a character class
Sub(s, class, repl) ==
    Concat([k \in 1..Len(s) |-> IF InClass(CharAt(s, k), class) THEN repl ELSE CharAt(s, k)])

\* line 87
vowels == CharSet("aeiouy")
IsVowel(c) == c \in vowels

\* lines 85-93: the number of maximal groups of vowels
VowelGroups(word) ==
    Cardinality({i \in 1..Len(word) :
        IsVowel(CharAt(word, i)) /\ (i = 1 \/ ~IsVowel(CharAt(word, i - 1)))})

\* count_syllables returning the adjusted count as it is (line 106 without
\* max(1, ...))
count_syllables_NoFloor(w) ==
    LET word == Strip(Lower(w))
        letters == Sub(word, NotClass(LowerSet), "")
        count == VowelGroups(letters)
        silent_e == IF EndsWith(letters, "e") /\ ~EndsWith(letters, "le") /\ count > 1
                    THEN count - 1 ELSE count
        ed == IF EndsWith(letters, "ed") /\ Len(letters) > 2
                 /\ CharAt(letters, Len(letters) - 2) \notin {"t", "d"}
              THEN silent_e - 1 ELSE silent_e
    IN  IF word = "" \/ ~HasChar(word, Class(LowerSet)) THEN 0
        ELSE IF word \in DOMAIN SYLLABLE_EXCEPTIONS THEN SYLLABLE_EXCEPTIONS[word]
        ELSE IF letters = "" THEN 0
        ELSE IF Len(letters) <= 2 THEN 1
        ELSE ed

count_syllables(w) ==
    LET word == Strip(Lower(w))
        letters == Sub(word, NotClass(LowerSet), "")
        count == VowelGroups(letters)
        silent_e == IF EndsWith(letters, "e") /\ ~EndsWith(letters, "le") /\ count > 1
                    THEN count - 1 ELSE count
        ed == IF EndsWith(letters, "ed") /\ Len(letters) > 2
                 /\ CharAt(letters, Len(letters) - 2) \notin {"t", "d"}
              THEN silent_e - 1 ELSE silent_e
    IN  IF word = "" \/ ~HasChar(word, Class(LowerSet)) THEN 0
        ELSE IF word \in DOMAIN SYLLABLE_EXCEPTIONS THEN SYLLABLE_EXCEPTIONS[word]
        ELSE IF letters = "" THEN 0
        ELSE IF Len(letters) <= 2 THEN 1
        ELSE Max(1, ed)

get_words(text) ==
    LET HasLetter(w) == w # "" /\ HasChar(w, Class(LowerSet \cup UpperSet))
        \* [^\w\s'-]
        punctuation == NotClass(WordCharSet \cup SpaceSet \cup {"'", "-"})
    IN  SelectSeq(Split(Sub(text, punctuation, " ")), HasLetter)

HaikuResult(detected, lines, syllables) ==
    [detected |-> detected, lines |-> lines, syllables |-> syllables]

RECURSIVE Sum(_)
Sum(ns) == IF ns = <<>> THEN 0 ELSE Head(ns) + Sum(Tail(ns))

detect_haiku(text) ==
    LET words == get_words(text)
        n == Len(words)
        word_syllables == [k \in 1..n |-> count_syllables(words[k])]
        \* words[:i], words[i:j], words[j:] with 0-based i, j
        splits == {p \in (1..(n - 2)) \X (2..(n - 1)) :
                     /\ p[1] < p[2]
                     /\ Sum(SubSeq(word_syllables, 1, p[1])) = 5
                     /\ Sum(SubSeq(word_syllables, p[1] + 1, p[2])) = 7
                     /\ Sum(SubSeq(word_syllables, p[2] + 1, n)) = 5}
        first == CHOOSE p \in splits :
                     \A q \in splits : p[1] < q[1] \/ (p[1] = q[1] /\ p[2] <= q[2])
    IN  IF n < 3 THEN HaikuResult(FALSE, None, None)
        ELSE IF n < 7 \/ n > 25 THEN HaikuResult(FALSE, None, None)
        ELSE IF Sum(word_syllables) # 17 THEN HaikuResult(FALSE, None, None)
        ELSE IF splits = {} THEN HaikuResult(FALSE, None, None)
        ELSE HaikuResult(TRUE,
                 Some(<<Join(SubSeq(words, 1, first[1]), " "),
                        Join(SubSeq(words, first[1] + 1, first[2]), " "),
                        Join(SubSeq(words, first[2] + 1, n), " ")>>),
                 Some(<<5, 7, 5>>))

(***************************************************************************)
(* detectors/crosslink.py.  The three patterns are matched as re does:     *)
(* finditer scans left to right, every quantifier takes as much as it can, *)
(* and the next match starts where the previous one ended.                 *)
(***************************************************************************)
CrosslinkMatch(subreddit, full_url, post_id, comment_id) ==
    [subreddit |-> subreddit, full_url |-> full_url, post_id |-> post_id, comment_id |-> comment_id]

CrosslinkResult(detected, links) == [detected |-> detected, links |-> links]

\* [a-zA-Z0-9_]
NameChars == Class(WordCharSet)
\* [a-z0-9] under re.I
IdChars == Class(LowerSet \cup UpperSet \cup DigitSet)
\* [^/\s]
PathChars == NotClass({"/"} \cup SpaceSet)

\* where the longest run of characters of the class that starts at i ends
\* (exclusive)
RunEnd(s, i, class) ==
    CHOOSE j \in i..(Len(s) + 1) :
        /\ \A k \in i..(j - 1) : InClass(CharAt(s, k), class)
        /\ (j = Len(s) + 1 \/ ~InClass(CharAt(s, j), class))

\* a literal at i (case-insensitive): the position after it, 0 when it is
\* not there
Expect(lower, p, i) == IF i > 0 /\ OccursAt(lower, p, i) THEN i + Len(p) ELSE 0

\* an optional literal at i (case-insensitive): the position after it
SkipOpt(lower, p, i) == IF i > 0 /\ OccursAt(lower, p, i) THEN i + Len(p) ELSE i

Group(s, a, b) == IF b > a THEN Some(SubSeq(s, a, b - 1)) ELSE None

\* (?:/comments/([a-z0-9]+))? and (?:/([a-z0-9]+))? at i: the position after
\* the group, i when the group takes no part in the match
OptIdEnd(s, p, i) ==
    IF OccursAt(Lower(s), p, i) /\ RunEnd(s, i + Len(p), IdChars) > i + Len(p)
    THEN RunEnd(s, i + Len(p), IdChars)
    ELSE i

\* (?:/[^/\s]*)? at i
OptPathEnd(s, i) == IF OccursAt(s, "/", i) THEN RunEnd(s, i + 1, PathChars) ELSE i

\* the match object: group 2 is the run after /comments/, group 3 the run
\* after the last /, None when the group took no part
FullUrlGroups(s, i, name, nameEnd, afterPost, afterTitle, end) ==
    Some([end |-> end,
          group0 |-> SubSeq(s, i, end - 1),
          group1 |-> Group(s, name, nameEnd),
          group2 |-> Group(s, nameEnd + Len("/comments/"), afterPost),
          group3 |-> Group(s, afterTitle + 1, end)])

FullUrlRest(s, i, name, nameEnd, afterPost) ==
    FullUrlGroups(s, i, name, nameEnd, afterPost, OptPathEnd(s, afterPost),
                  OptIdEnd(s, "/", OptPathEnd(s, afterPost)))

\* ([a-zA-Z0-9_]+) at name, then the optional groups
FullUrlName(s, i, name) ==
    IF name = 0 \/ RunEnd(s, name, NameChars) = name THEN None
    ELSE FullUrlRest(s, i, name, RunEnd(s, name, NameChars),
                     OptIdEnd(s, "/comments/", RunEnd(s, name, NameChars)))

\* REDDIT_LINK_PATTERNS[0] at position i: None, or the end and the groups;
\* https?://(?:www\.)?(?:old\.)?reddit\.com/r/ comes first
MatchFullUrl(s, i) ==
    FullUrlName(s, i,
        Expect(Lower(s), "reddit.com/r/",
            SkipOpt(Lower(s), "old.",
                SkipOpt(Lower(s), "www.",
                    Expect(Lower(s), "://",
                        SkipOpt(Lower(s), "s",
                            Expect(Lower(s), "http", i)))))))

\* REDDIT_LINK_PATTERNS[1] at position i
MatchShortUrl(s, i) ==
    LET lower == Lower(s)
        scheme == SkipOpt(lower, "s", i + Len("http"))
        id == scheme + Len("://redd.it/")
        end == RunEnd(s, id, IdChars)
    IN  IF OccursAt(lower, "http", i) /\ OccursAt(lower, "://redd.it/", scheme) /\ end > id
        THEN Some([end |-> end, group0 |-> SubSeq(s, i, end - 1), group1 |-> Group(s, id, end)])
        ELSE None

MinNameLen == 2
MaxNameLen == 21

\* REDDIT_LINK_PATTERNS[2] at position i: r/name, not after and not before / or \w
MatchMention(s, i) ==
    LET lower == Lower(s)
        name == i + Len("r/")
        end == RunEnd(s, name, NameChars)
    IN  IF /\ OccursAt(lower, "r/", i)
           /\ ~(WordAt(s, i - 1) \/ OccursAt(s, "/", i - 1))
           /\ end - name >= MinNameLen
           /\ end - name <= MaxNameLen
           /\ ~OccursAt(s, "/", end)
        THEN Some([end |-> end, group0 |-> SubSeq(s, i, end - 1), group1 |-> Group(s, name, end)])
        ELSE None

\* REDDIT_LINK_PATTERNS[n] (0-based, as in the source) at position i
MatchAt(n, s, i) ==
    CASE n = 0 -> MatchFullUrl(s, i)
      [] n = 1 -> MatchShortUrl(s, i)
      [] n = 2 -> MatchMention(s, i)

\* the literal every match of REDDIT_LINK_PATTERNS[n] begins with
StartOf(n) == IF n = 2 THEN "r/" ELSE "http"

\* REDDIT_LINK_PATTERNS[n].finditer(text): the matches from position i on
RECURSIVE finditer(_, _, _)
finditer(n, s, i) ==
    LET k == Find(Lower(s), StartOf(n), i)
    IN  IF k = 0 THEN <<>>
        ELSE LET m == MatchAt(n, s, k)
             IN  IF m = None THEN finditer(n, s, k + 1)
                 ELSE <<m[1]>> \o finditer(n, s, m[1].end)

\* Excluded comparing the names as they are written (lines 53 and 83 without
\* .lower())
Excluded_CaseSensitive(subreddit, exclude_subreddit) ==
    /\ exclude_subreddit # None
    /\ exclude_subreddit[1] # ""
    /\ subreddit = exclude_subreddit[1]

Excluded(subreddit, exclude_subreddit) ==
    /\ exclude_subreddit # None
    /\ exclude_subreddit[1] # ""
    /\ Lower(subreddit) = Lower(exclude_subreddit[1])

\* lines 47-63
RECURSIVE FullUrlLinks(_, _, _, _)
FullUrlLinks(matches, k, exclude_subreddit, links) ==
    IF k > Len(matches) THEN links
    ELSE LET match == matches[k]
             subreddit == match.group1[1]
             full_url == match.group0
             seen == \E n \in DOMAIN links : links[n].full_url = full_url
         IN  FullUrlLinks(matches, k + 1, exclude_subreddit,
                 IF Excluded(subreddit, exclude_subreddit) \/ seen THEN links
                 ELSE Append(links, CrosslinkMatch(subreddit, full_url, match.group2, match.group3)))

\* lines 66-76
RECURSIVE ShortUrlLinks(_, _, _)
ShortUrlLinks(matches, k, links) ==
    IF k > Len(matches) THEN links
    ELSE LET match == matches[k]
             full_url == match.group0
             seen == \E n \in DOMAIN links : links[n].full_url = full_url
         IN  ShortUrlLinks(matches, k + 1,
                 IF seen THEN links
                 ELSE Append(links, CrosslinkMatch("unknown", full_url, match.group1, None)))

\* MentionLinks without the test that a link of the subreddit is already
\* there (line 87, the any(...) part)
RECURSIVE MentionLinks_NoKnownCheck(_, _, _, _)
MentionLinks_NoKnownCheck(matches, k, exclude_subreddit, links) ==
    IF k > Len(matches) THEN links
    ELSE LET match == matches[k]
             subreddit == match.group1[1]
             full_url == "https://reddit.com/r/" \o subreddit
             seen == \E n \in DOMAIN links : links[n].full_url = full_url
         IN  MentionLinks_NoKnownCheck(matches, k + 1, exclude_subreddit,
                 IF Excluded(subreddit, exclude_subreddit) \/ seen THEN links
                 ELSE Append(links, CrosslinkMatch(subreddit, full_url, None, None)))

\* lines 79-92
RECURSIVE MentionLinks(_, _, _, _)
MentionLinks(matches, k, exclude_subreddit, links) ==
    IF k > Len(matches) THEN links
    ELSE LET match == matches[k]
             subreddit == match.group1[1]
             full_url == "https://reddit.com/r/" \o subreddit
             seen == \E n \in DOMAIN links : links[n].full_url = full_url
             known == \E n \in DOMAIN links : Lower(links[n].subreddit) = Lower(subreddit)
         IN  MentionLinks(matches, k + 1, exclude_subreddit,
                 IF Excluded(subreddit, exclude_subreddit) \/ seen \/ known THEN links
                 ELSE Append(links, CrosslinkMatch(subreddit, full_url, None, None)))

\* detect_crosslinks with the loop over the mentions (lines 79-92) run
\* before the loop over the short URLs (lines 66-76)
detect_crosslinks_MentionsBeforeShort(text, exclude_subreddit) ==
    LET full == FullUrlLinks(finditer(0, text, 1), 1, exclude_subreddit, <<>>)
        mentions == MentionLinks(finditer(2, text, 1), 1, exclude_subreddit, full)
        links == ShortUrlLinks(finditer(1, text, 1), 1, mentions)
    IN  CrosslinkResult(links # <<>>, links)

detect_crosslinks(text, exclude_subreddit) ==
    LET full == FullUrlLinks(finditer(0, text, 1), 1, exclude_subreddit, <<>>)
        short == ShortUrlLinks(finditer(1, text, 1), 1, full)
        links == MentionLinks(finditer(2, text, 1), 1, exclude_subreddit, short)
    IN  CrosslinkResult(Len(links) > 0, links)

(***************************************************************************)
(* Inputs of detect_farewell: texts made of a few fragments, on one line   *)
(* or on separate paragraphs                                               *)
(***************************************************************************)
MaxFarewellFragments == 2

FarewellFragments ==
    { "I'm leaving", "how do I unsubscribe", "Unsubscribed from this sub",
      "Goodbye, everyone", "this sub has become toxic", "used to love this sub",
      "Don't leave", "fed up, last straw, downhill", "nice weather" }

Separators == {" ", "\n\n"}

FarewellTexts ==
    UNION { {Join(fs, sep) : fs \in [1..n -> FarewellFragments]} :
            <<n, sep>> \in (1..MaxFarewellFragments) \X Separators }

\* the detector's answer to every input text
FarewellOf == [t \in FarewellTexts |-> detect_farewell(t)]

FarewellIdle ==
    /\ farewellText = ""
    /\ farewellPc = "idle"
    /\ farewellResult = NoResult

FarewellInit ==
    /\ farewellText \in FarewellTexts
    /\ farewellPc = "start"
    /\ farewellResult = NoResult

\* detect_farewell(text), lines 108-139
DetectFarewell ==
    /\ farewellPc = "start"
    /\ farewellResult' = FarewellOf[farewellText]
    /\ farewellPc' = "done"
    /\ UNCHANGED farewellText
    /\ FarewellFrame

(***************************************************************************)
(* Inputs of detect_political_complaint: one or two fragments on one line  *)
(***************************************************************************)
MaxPoliticalFragments == 2

PoliticalFragments ==
    { "this sub is a progressive echo chamber", "The subreddit has become a right-wing sub",
      "trump sub", "so political, what a hivemind", "the maga crowd", "liberals",
      "nice weather" }

PoliticalTexts ==
    UNION { {Join(fs, " ") : fs \in [1..n -> PoliticalFragments]} :
            n \in 1..MaxPoliticalFragments }

PoliticalIdle ==
    /\ politicalText = ""
    /\ politicalPc = "idle"
    /\ politicalResult = NoResult

PoliticalInit ==
    /\ politicalText \in PoliticalTexts
    /\ politicalPc = "start"
    /\ politicalResult = NoResult

\* detect_political_complaint(text), lines 142-160
DetectPoliticalComplaint ==
    /\ politicalPc = "start"
    /\ politicalResult' = detect_political_complaint(politicalText)
    /\ politicalPc' = "done"
    /\ UNCHANGED politicalText
    /\ PoliticalFrame

(***************************************************************************)
(* detect_haiku as a state machine: the early returns, then one step per   *)
(* partition check of the nested loops.  The input texts are one to three  *)
(* fragments, one per line.                                                *)
(***************************************************************************)
MaxHaikuFragments == 3

HaikuFragments ==
    { "An old silent pond,", "a frog jumps into the pond:", "splash! Silence again.",
      "no no no no no no no no no", "old pond frog jumps silent",
      "one two red four five", "no no no no no no no" }

HaikuTexts ==
    UNION { {Join(fs, "\n") : fs \in [1..n -> HaikuFragments]} : n \in 1..MaxHaikuFragments }

HaikuIdle ==
    /\ haikuText = ""
    /\ haikuPc = "idle"
    /\ haikuWords = <<>>
    /\ haikuSyllables = <<>>
    /\ haikuI = 0
    /\ haikuJ = 0
    /\ haikuChecks = 0
    /\ haikuResult = NoResult

HaikuInit ==
    /\ haikuText \in HaikuTexts
    /\ haikuPc = "start"
    /\ haikuWords = <<>>
    /\ haikuSyllables = <<>>
    /\ haikuI = 0
    /\ haikuJ = 0
    /\ haikuChecks = 0
    /\ haikuResult = NoResult

\* sum(word_syllables[a:b]) with 0-based a and b
SliceSum(syllables, a, b) == Sum(SubSeq(syllables, a + 1, b))

\* HaikuStart with 16 in the place of 25 (line 127)
HaikuStart_Max16 ==
    /\ haikuPc = "start"
    /\ haikuWords' = get_words(haikuText)
    /\ IF Len(haikuWords') < 3 \/ Len(haikuWords') < 7 \/ Len(haikuWords') > 16
       THEN /\ haikuSyllables' = <<>>
            /\ haikuResult' = HaikuResult(FALSE, None, None)
            /\ haikuPc' = "done"
            /\ UNCHANGED <<haikuI, haikuJ>>
       ELSE /\ haikuSyllables' = [k \in 1..Len(haikuWords') |-> count_syllables(haikuWords'[k])]
            /\ IF Sum(haikuSyllables') # 17
               THEN /\ haikuResult' = HaikuResult(FALSE, None, None)
                    /\ haikuPc' = "done"
                    /\ UNCHANGED <<haikuI, haikuJ>>
               ELSE /\ haikuPc' = "search"
                    /\ haikuI' = 1
                    /\ haikuJ' = 2
                    /\ UNCHANGED haikuResult
    /\ UNCHANGED <<haikuText, haikuChecks>>
    /\ HaikuFrame

\* HaikuStart without the check of the total (lines 135-136)
HaikuStart_NoTotalCheck ==
    /\ haikuPc = "start"
    /\ haikuWords' = get_words(haikuText)
    /\ IF Len(haikuWords') < 3 \/ Len(haikuWords') < 7 \/ Len(haikuWords') > 25
       THEN /\ haikuSyllables' = <<>>
            /\ haikuResult' = HaikuResult(FALSE, None, None)
            /\ haikuPc' = "done"
            /\ UNCHANGED <<haikuI, haikuJ>>
       ELSE /\ haikuSyllables' = [k \in 1..Len(haikuWords') |-> count_syllables(haikuWords'[k])]
            /\ haikuPc' = "search"
            /\ haikuI' = 1
            /\ haikuJ' = 2
            /\ UNCHANGED haikuResult
    /\ UNCHANGED <<haikuText, haikuChecks>>
    /\ HaikuFrame

\* lines 120-144: the words, the early returns, and the entry of the loops
\* (for i in range(1, len(words) - 1): for j in range(i + 1, len(words)))
HaikuStart ==
    /\ haikuPc = "start"
    /\ haikuWords' = get_words(haikuText)
    /\ IF Len(haikuWords') < 3 \/ Len(haikuWords') < 7 \/ Len(haikuWords') > 25
       THEN /\ haikuSyllables' = <<>>
            /\ haikuResult' = HaikuResult(FALSE, None, None)
            /\ haikuPc' = "done"
            /\ UNCHANGED <<haikuI, haikuJ>>
       ELSE /\ haikuSyllables' = [k \in 1..Len(haikuWords') |-> count_syllables(haikuWords'[k])]
            /\ IF Sum(haikuSyllables') # 17
               THEN /\ haikuResult' = HaikuResult(FALSE, None, None)
                    /\ haikuPc' = "done"
                    /\ UNCHANGED <<haikuI, haikuJ>>
               ELSE /\ haikuPc' = "search"
                    /\ haikuI' = 1
                    /\ haikuJ' = 2
                    /\ UNCHANGED haikuResult
    /\ UNCHANGED <<haikuText, haikuChecks>>
    /\ HaikuFrame

\* lines 146-156: one partition check; a hit returns, a miss goes on to the
\* next j, then to the next i, and after the last pair returns detected=False
HaikuCheck ==
    /\ haikuPc = "search"
    /\ haikuChecks' = haikuChecks + 1
    /\ IF /\ SliceSum(haikuSyllables, 0, haikuI) = 5
          /\ SliceSum(haikuSyllables, haikuI, haikuJ) = 7
          /\ SliceSum(haikuSyllables, haikuJ, Len(haikuWords)) = 5
       THEN /\ haikuResult' =
                   HaikuResult(TRUE,
                       Some(<<Join(SubSeq(haikuWords, 1, haikuI), " "),
                              Join(SubSeq(haikuWords, haikuI + 1, haikuJ), " "),
                              Join(SubSeq(haikuWords, haikuJ + 1, Len(haikuWords)), " ")>>),
                       Some(<<5, 7, 5>>))
            /\ haikuPc' = "done"
            /\ UNCHANGED <<haikuI, haikuJ>>
       ELSE IF haikuJ + 1 < Len(haikuWords)
            THEN /\ haikuJ' = haikuJ + 1
                 /\ UNCHANGED <<haikuI, haikuPc, haikuResult>>
            ELSE IF haikuI + 1 < Len(haikuWords) - 1
                 THEN /\ haikuI' = haikuI + 1
                      /\ haikuJ' = haikuI + 2
                      /\ UNCHANGED <<haikuPc, haikuResult>>
                 ELSE /\ haikuResult' = HaikuResult(FALSE, None, None)
                      /\ haikuPc' = "done"
                      /\ UNCHANGED <<haikuI, haikuJ>>
    /\ UNCHANGED <<haikuText, haikuWords, haikuSyllables>>
    /\ HaikuFrame

(***************************************************************************)
(* Inputs of detect_crosslinks: one to three references joined by " and ", *)
(* with or without a subreddit to exclude                                  *)
(***************************************************************************)
MaxCrosslinkFragments == 3

CrosslinkFragments ==
    { "r/foo", "r/Foo", "https://reddit.com/r/foo",
      "https://old.reddit.com/r/Bar/comments/ab1/t/cd2",
      "https://redd.it/ab1", "r/unknown" }

CrosslinkTexts ==
    UNION { {"check " \o Join(fs, " and ") : fs \in [1..n -> CrosslinkFragments]} :
            n \in 1..MaxCrosslinkFragments }

ExcludeSubreddits == {None, Some(""), Some("FOO")}

CrosslinkIdle ==
    /\ crosslinkText = ""
    /\ crosslinkExclude = None
    /\ crosslinkPc = "idle"
    /\ crosslinkResult = NoResult

CrosslinkInit ==
    /\ crosslinkText \in CrosslinkTexts
    /\ crosslinkExclude \in ExcludeSubreddits
    /\ crosslinkPc = "start"
    /\ crosslinkResult = NoResult

\* detect_crosslinks(text, exclude_subreddit), lines 35-97
DetectCrosslinks ==
    /\ crosslinkPc = "start"
    /\ crosslinkResult' = detect_crosslinks(crosslinkText, crosslinkExclude)
    /\ crosslinkPc' = "done"
    /\ UNCHANGED <<crosslinkText, crosslinkExclude>>
    /\ CrosslinkFrame

\* no call of analyze_content is running beside the one of analyzeVars
ConcurrentIdle == calls = <<>> /\ batch = <<>> /\ served = <<>>

DetectorsIdle == PoliticalIdle /\ HaikuIdle /\ CrosslinkIdle /\ ConcurrentIdle

(***************************************************************************)
(* main.py: check_rate_limit, verify_api_key, emit_detection_log and       *)
(* analyze_content                                                         *)
(***************************************************************************)
RATE_WINDOW == 60

HTTPException(status_code, detail) == [status_code |-> status_code, detail |-> detail]

\* check_rate_limit appending the timestamp before the test of line 130, so
\* that a rejected request is recorded too
check_rate_limit_RecordsRejected(counts, req, time, limit) ==
    LET client_ip == IF req.client # None THEN req.client[1] ELSE "unknown"
        before == IF client_ip \in DOMAIN counts THEN counts[client_ip] ELSE <<>>
        InWindow(t) == time - t < RATE_WINDOW
        recent == SelectSeq(before, InWindow)
        exceeded == Len(recent) >= limit
        after == Append(recent, time)
    IN  [raised |-> exceeded,
         request_counts |-> [c \in DOMAIN counts \cup {client_ip} |->
                                IF c = client_ip THEN after ELSE counts[c]]]

\* lines 119-133: the counts after the call, and whether it raised 429
check_rate_limit(counts, req, time, limit) ==
    LET client_ip == IF req.client # None THEN req.client[1] ELSE "unknown"
        before == IF client_ip \in DOMAIN counts THEN counts[client_ip] ELSE <<>>
        InWindow(t) == time - t < RATE_WINDOW
        recent == SelectSeq(before, InWindow)
        exceeded == Len(recent) >= limit
        after == IF exceeded THEN recent ELSE Append(recent, time)
    IN  [raised |-> exceeded,
         request_counts |-> [c \in DOMAIN counts \cup {client_ip} |->
                                IF c = client_ip THEN after ELSE counts[c]]]

\* lines 136-143: whether the call raises 401
verify_api_key(configured, req) ==
    Truthy(configured) /\ req.api_key # configured

\* lines 648-656: the entry that is printed
emit_detection_log(event_type, time, kwargs) ==
    [event |-> event_type, timestamp |-> time * 1000] @@ kwargs

NoEvents == [log |-> <<>>, events_emitted |-> <<>>]

\* lines 697-704
HaikuEvents(item, haiku_result, time) ==
    IF haiku_result.detected
    THEN [log |-> <<emit_detection_log("haiku_detection", time,
                       [subreddit |-> item.subreddit, author |-> item.author,
                        content_id |-> item.id])>>,
          events_emitted |-> <<"haiku_detection">>]
    ELSE NoEvents

\* lines 706-714
FarewellEvents(item, farewell_result, time) ==
    IF farewell_result.detected
    THEN [log |-> <<emit_detection_log("farewell_announcement", time,
                       [subreddit |-> item.subreddit, author |-> item.author,
                        content_id |-> item.id, confidence |-> farewell_result.confidence])>>,
          events_emitted |-> <<"farewell_announcement">>]
    ELSE NoEvents

\* lines 716-724
PoliticalEvents(item, political_result, time) ==
    IF political_result.detected
    THEN [log |-> <<emit_detection_log("political_complaint", time,
                       [subreddit |-> item.subreddit, author |-> item.author,
                        content_id |-> item.id,
                        complaint_type |-> political_result.complaint_type])>>,
          events_emitted |-> <<"political_complaint">>]
    ELSE NoEvents

HostileClassifications == {"adversarial", "hateful"}

HostileLog(item, crosslink_result, tone_result, time) ==
    [k \in 1..Len(crosslink_result.links) |->
        emit_detection_log("hostile_crosslink", time,
            [source_subreddit |-> crosslink_result.links[k].subreddit,
             target_subreddit |-> item.subreddit,
             classification |-> tone_result.classification,
             content_id |-> item.id])]

\* the name appended to events_emitted inside the loop over the links
HostileCrosslinkEvents_PerLink(item, crosslink_result, tone_result, time) ==
    IF crosslink_result.detected /\ tone_result.classification \in HostileClassifications
    THEN [log |-> HostileLog(item, crosslink_result, tone_result, time),
          events_emitted |-> [k \in 1..Len(crosslink_result.links) |-> "hostile_crosslink"]]
    ELSE NoEvents

\* lines 726-737: one log entry per link, and then the name once
HostileCrosslinkEvents(item, crosslink_result, tone_result, time) ==
    IF crosslink_result.detected /\ tone_result.classification \in HostileClassifications
    THEN [log |-> HostileLog(item, crosslink_result, tone_result, time),
          events_emitted |-> <<"hostile_crosslink">>]
    ELSE NoEvents

\* lines 682-691: the four detectors that do not wait
Detect(item) ==
    LET text == ContentText(item)
    IN  [haiku |-> detect_haiku(text),
         farewell |-> detect_farewell(text),
         political_complaint |-> detect_political_complaint(text),
         crosslink |-> detect_crosslinks(text, Some(item.subreddit))]

DetectionsOf == [item \in ContentItems |-> Detect(item)]

\* Emitted with the hostile_crosslink block placed before the three other
\* blocks
Emitted_HostileFirst(item, found, tone_result, time) ==
    LET parts == << HostileCrosslinkEvents(item, found.crosslink, tone_result, time),
                    HaikuEvents(item, found.haiku, time),
                    FarewellEvents(item, found.farewell, time),
                    PoliticalEvents(item, found.political_complaint, time) >>
    IN  [log |-> parts[1].log \o parts[2].log \o parts[3].log \o parts[4].log,
         events_emitted |-> parts[1].events_emitted \o parts[2].events_emitted
                               \o parts[3].events_emitted \o parts[4].events_emitted]

\* lines 696-737
Emitted(item, found, tone_result, time) ==
    LET parts == << HaikuEvents(item, found.haiku, time),
                    FarewellEvents(item, found.farewell, time),
                    PoliticalEvents(item, found.political_complaint, time),
                    HostileCrosslinkEvents(item, found.crosslink, tone_result, time) >>
    IN  [log |-> parts[1].log \o parts[2].log \o parts[3].log \o parts[4].log,
         events_emitted |-> parts[1].events_emitted \o parts[2].events_emitted
                               \o parts[3].events_emitted \o parts[4].events_emitted]

\* lines 741-782
ContentAnalysisResponse(item, found, tone_result, emitted, processing_time_ms) ==
    [id |-> item.id,
     type |-> item.type,
     subreddit |-> item.subreddit,
     author |-> item.author,
     detections |->
        [haiku |-> found.haiku,
         farewell |-> found.farewell,
         political_complaint |->
            [detected |-> found.political_complaint.detected,
             complaint_type |-> found.political_complaint.complaint_type],
         crosslink |-> found.crosslink,
         tone |-> tone_result],
     events_emitted |-> emitted,
     processing_time_ms |-> processing_time_ms]

(***************************************************************************)
(* analyze_content as a state machine: the handler runs up to the await of *)
(* classify_tone, classify_tone takes its steps, and the handler resumes   *)
(***************************************************************************)
Now == 100
Clients == {Some("10.0.0.1")}
RequestKeys == {None, Some("secret")}
Requests == {[client |-> c, api_key |-> k] : c \in Clients, k \in RequestKeys}
RateLimits == {1, 2}
\* request_counts before the request: nothing, or an old and a recent request
RequestCounts == {<<>>, [c \in {"10.0.0.1"} |-> <<Now - 70, Now - 10>>]}
ProcessingTimes == {0, 250}
SyncDetectors == {"haiku", "farewell", "political_complaint", "crosslink"}

NoResponse == <<>>

AnalyzeIdle ==
    /\ content = <<>>
    /\ request = <<>>
    /\ request_counts = <<>>
    /\ now = 0
    /\ RATE_LIMIT = 0
    /\ SCRAPER_API_KEY = None
    /\ analyzePc = "idle"
    /\ detections = NoResult
    /\ events_emitted = <<>>
    /\ log = <<>>
    /\ response = NoResponse

AnalyzeInit ==
    /\ content \in ContentItems
    /\ request \in Requests
    /\ request_counts \in RequestCounts
    /\ now = Now
    /\ RATE_LIMIT \in RateLimits
    /\ SCRAPER_API_KEY \in RequestKeys
    /\ analyzePc = "start"
    /\ detections = NoResult
    /\ events_emitted = <<>>
    /\ log = <<>>
    /\ response = NoResponse

\* classify_tone before analyze_content calls it: only the environment is set
ToneNotCalled ==
    /\ toneText = ""
    /\ api_key = None
    /\ GOOGLE_API_KEY \in EnvKeys
    /\ tonePc = "idle"
    /\ capability = [state |-> "unused", prompt |-> "", answer |-> NoAnswer]
    /\ toneResult = NoResult

RateLimited == check_rate_limit(request_counts, request, now, RATE_LIMIT).raised
Unauthorized == verify_api_key(SCRAPER_API_KEY, request)

\* line 671: check_rate_limit raises 429
AnalyzeRateLimited ==
    /\ analyzePc = "start"
    /\ RateLimited
    /\ request_counts' = check_rate_limit(request_counts, request, now, RATE_LIMIT).request_counts
    /\ response' = HTTPException(429, "Rate limit exceeded")
    /\ analyzePc' = "rejected"
    /\ UNCHANGED <<content, request, now, RATE_LIMIT, SCRAPER_API_KEY, detections, events_emitted, log>>
    /\ UNCHANGED toneVars
    /\ AnalyzeFrame

\* lines 671-672: the request is counted, verify_api_key raises 401
AnalyzeUnauthorized ==
    /\ analyzePc = "start"
    /\ ~RateLimited
    /\ Unauthorized
    /\ request_counts' = check_rate_limit(request_counts, request, now, RATE_LIMIT).request_counts
    /\ response' = HTTPException(401, "Invalid or missing API key")
    /\ analyzePc' = "rejected"
    /\ UNCHANGED <<content, request, now, RATE_LIMIT, SCRAPER_API_KEY, detections, events_emitted, log>>
    /\ UNCHANGED toneVars
    /\ AnalyzeFrame

\* lines 671-694: the request is admitted, the four detectors run on the
\* text and classify_tone(text) is called, with no api_key argument
AnalyzeDetect ==
    /\ analyzePc = "start"
    /\ ~RateLimited
    /\ ~Unauthorized
    /\ request_counts' = check_rate_limit(request_counts, request, now, RATE_LIMIT).request_counts
    /\ detections' = DetectionsOf[content]
    /\ toneText' = ContentText(content)
    /\ api_key' = None
    /\ tonePc' = "start"
    /\ analyzePc' = "awaiting_tone"
    /\ UNCHANGED <<content, request, now, RATE_LIMIT, SCRAPER_API_KEY, events_emitted, log, response>>
    /\ UNCHANGED <<GOOGLE_API_KEY, capability, toneResult>>
    /\ AnalyzeFrame

\* lines 682-691: a detector call raises; the calls are in no try block, the
\* exception leaves analyze_content and the caller gets no result
AnalyzeDetectorRaises ==
    /\ analyzePc = "start"
    /\ ~RateLimited
    /\ ~Unauthorized
    /\ request_counts' = check_rate_limit(request_counts, request, now, RATE_LIMIT).request_counts
    /\ \E detector \in SyncDetectors :
          response' = [status_code |-> 500, raised_by |-> detector]
    /\ analyzePc' = "raised"
    /\ UNCHANGED <<content, request, now, RATE_LIMIT, SCRAPER_API_KEY, detections, events_emitted, log>>
    /\ UNCHANGED toneVars
    /\ AnalyzeFrame

\* AnalyzeRespond without the await of line 694: the events are derived as
\* soon as the detectors have run, from the fallback when classify_tone has
\* not returned
AnalyzeRespond_BeforeTone ==
    /\ analyzePc = "awaiting_tone"
    /\ LET tone_result == IF tonePc = "done" THEN toneResult ELSE FallbackOf[toneText]
           emitted == Emitted(content, detections, tone_result, now)
       IN  /\ log' = emitted.log
           /\ events_emitted' = emitted.events_emitted
           /\ \E processing_time_ms \in ProcessingTimes :
                 response' = ContentAnalysisResponse(content, detections, tone_result,
                                                     emitted.events_emitted, processing_time_ms)
    /\ analyzePc' = "responded"
    /\ UNCHANGED <<content, request, request_counts, now, RATE_LIMIT, SCRAPER_API_KEY, detections>>
    /\ UNCHANGED toneVars
    /\ AnalyzeFrame

\* lines 696-782: classify_tone has returned; the events are derived, logged
\* and the response is returned
AnalyzeRespond ==
    /\ analyzePc = "awaiting_tone"
    /\ tonePc = "done"
    /\ LET emitted == Emitted(content, detections, toneResult, now)
       IN  /\ log' = emitted.log
           /\ events_emitted' = emitted.events_emitted
           /\ \E processing_time_ms \in ProcessingTimes :
                 response' = ContentAnalysisResponse(content, detections, toneResult,
                                                     emitted.events_emitted, processing_time_ms)
    /\ analyzePc' = "responded"
    /\ UNCHANGED <<content, request, request_counts, now, RATE_LIMIT, SCRAPER_API_KEY, detections>>
    /\ UNCHANGED toneVars
    /\ AnalyzeFrame

(***************************************************************************)
(* Several calls of analyze_content at once.  Each call has its own frame  *)
(* (content, request, the detector results, the tone result, the entries   *)
(* it printed, its response); request_counts is the module's dictionary.   *)
(* A call runs up to the await of classify_tone in one step and may be     *)
(* overtaken there.                                                        *)
(***************************************************************************)
MaxCalls == 2
CallIds == 1..MaxCalls

ConcurrentItems ==
    {item \in ContentItems :
        /\ item.title = None
        /\ item.body \in {BodyFragments[1], BodyFragments[3], BodyFragments[5]}}

ConcurrentClients == {Some("10.0.0.1"), Some("10.0.0.2")}

ConcurrentRequests ==
    {[client |-> c, api_key |-> k] : c \in ConcurrentClients, k \in RequestKeys}

NewCall(item, req) ==
    [content |-> item, request |-> req, pc |-> "start", detections |-> NoResult,
     tone_result |-> NoResult, log |-> <<>>, response |-> NoResponse]

\* a process that has served no request yet receives MaxCalls requests
ConcurrentInit ==
    /\ calls \in [CallIds -> {NewCall(item, req) :
                                 item \in ConcurrentItems, req \in ConcurrentRequests}]
    /\ batch = <<>>
    /\ served = <<>>
    /\ request_counts = <<>>
    /\ now = Now
    /\ RATE_LIMIT \in RateLimits
    /\ SCRAPER_API_KEY = Some("secret")
    /\ GOOGLE_API_KEY \in EnvKeys
    /\ content = <<>>
    /\ request = <<>>
    /\ analyzePc = "idle"
    /\ detections = NoResult
    /\ events_emitted = <<>>
    /\ log = <<>>
    /\ response = NoResponse
    /\ toneText = ""
    /\ api_key = None
    /\ tonePc = "idle"
    /\ capability = [state |-> "unused", prompt |-> "", answer |-> NoAnswer]
    /\ toneResult = NoResult

CallRateLimited(c) ==
    check_rate_limit(request_counts, calls[c].request, now, RATE_LIMIT).raised
CallCounted(c) ==
    check_rate_limit(request_counts, calls[c].request, now, RATE_LIMIT).request_counts

\* line 671 in call c: check_rate_limit raises 429
CallRejectedByRateLimit(c) ==
    /\ calls[c].pc = "start"
    /\ CallRateLimited(c)
    /\ request_counts' = CallCounted(c)
    /\ calls' = [calls EXCEPT ![c].pc = "rejected",
                              ![c].response = HTTPException(429, "Rate limit exceeded")]
    /\ ConcurrentFrame

\* lines 671-672 in call c: the request is counted, verify_api_key raises 401
CallRejectedByKey(c) ==
    /\ calls[c].pc = "start"
    /\ ~CallRateLimited(c)
    /\ verify_api_key(SCRAPER_API_KEY, calls[c].request)
    /\ request_counts' = CallCounted(c)
    /\ calls' = [calls EXCEPT ![c].pc = "rejected",
                              ![c].response = HTTPException(401, "Invalid or missing API key")]
    /\ ConcurrentFrame

\* lines 671-694 in call c: the request is admitted and counted, the four
\* detectors run and classify_tone(text) is awaited
CallDetect(c) ==
    /\ calls[c].pc = "start"
    /\ ~CallRateLimited(c)
    /\ ~verify_api_key(SCRAPER_API_KEY, calls[c].request)
    /\ request_counts' = CallCounted(c)
    /\ calls' = [calls EXCEPT ![c].pc = "awaiting_tone",
                              ![c].detections = DetectionsOf[calls[c].content]]
    /\ ConcurrentFrame

\* tone.py lines 94-152: what classify_tone(text) may return, by the key of
\* the environment and the answer of the capability
ToneOutcomes(text, env) ==
    IF Truthy(ResolvedKey(None, env))
    THEN {FallbackOf[text]} \cup {ToneAfterResponse(text, answer) : answer \in Answers}
    ELSE {FallbackOf[text]}

\* lines 694-782 in call c: classify_tone returns, the events are derived
\* and printed and the response is returned
CallRespond(c) ==
    /\ calls[c].pc = "awaiting_tone"
    /\ \E tone_result \in ToneOutcomes(ContentText(calls[c].content), GOOGLE_API_KEY),
          processing_time_ms \in ProcessingTimes :
          LET emitted == Emitted(calls[c].content, calls[c].detections, tone_result, now)
          IN  calls' = [calls EXCEPT
                  ![c].pc = "responded",
                  ![c].tone_result = tone_result,
                  ![c].log = emitted.log,
                  ![c].response =
                      ContentAnalysisResponse(calls[c].content, calls[c].detections,
                          tone_result, emitted.events_emitted, processing_time_ms)]
    /\ UNCHANGED request_counts
    /\ ConcurrentFrame

(***************************************************************************)
(* analyze_batch as a state machine: the endpoint's own checks, then one   *)
(* call of analyze_content per item with the batch's request; every such   *)
(* call starts with check_rate_limit(request) and verify_api_key(request)  *)
(* (lines 671-672), and an exception it raises leaves analyze_batch        *)
(***************************************************************************)
MaxBatchItems == 2
BatchSizeLimit == 50

BatchItems ==
    {item \in ContentItems :
        /\ item.title = None
        /\ item.body \in {BodyFragments[3], BodyFragments[5]}}

\* the batches of at most MaxBatchItems items, and one of BatchSizeLimit + 1
BatchContents ==
    UNION {[1..n -> BatchItems] : n \in 0..MaxBatchItems}
        \cup {[k \in 1..(BatchSizeLimit + 1) |-> CHOOSE item \in BatchItems : TRUE]}

BatchRateLimits == {1, 2, 3}
\* the seconds that pass while an item is analyzed
BatchDelays == {0, 1}

NewBatch(contents, req) ==
    [contents |-> contents, request |-> req, pc |-> "start", results |-> <<>>,
     response |-> NoResponse]

BatchInit ==
    /\ batch \in {NewBatch(contents, req) : contents \in BatchContents, req \in Requests}
    /\ calls = <<>>
    /\ served = <<>>
    /\ request_counts \in RequestCounts
    /\ now = Now
    /\ RATE_LIMIT \in BatchRateLimits
    /\ SCRAPER_API_KEY = Some("secret")
    /\ GOOGLE_API_KEY \in EnvKeys
    /\ content = <<>>
    /\ request = <<>>
    /\ analyzePc = "idle"
    /\ detections = NoResult
    /\ events_emitted = <<>>
    /\ log = <<>>
    /\ response = NoResponse
    /\ toneText = ""
    /\ api_key = None
    /\ tonePc = "idle"
    /\ capability = [state |-> "unused", prompt |-> "", answer |-> NoAnswer]
    /\ toneResult = NoResult

BatchRateLimited ==
    check_rate_limit(request_counts, batch.request, now, RATE_LIMIT).raised
BatchCounted ==
    check_rate_limit(request_counts, batch.request, now, RATE_LIMIT).request_counts

\* line 794: check_rate_limit raises 429
BatchRejectedByRateLimit ==
    /\ batch.pc = "start"
    /\ BatchRateLimited
    /\ request_counts' = BatchCounted
    /\ batch' = [batch EXCEPT !.pc = "rejected",
                              !.response = HTTPException(429, "Rate limit exceeded")]
    /\ UNCHANGED now
    /\ BatchFrame

\* lines 794-795: the request is counted, verify_api_key raises 401
BatchRejectedByKey ==
    /\ batch.pc = "start"
    /\ ~BatchRateLimited
    /\ verify_api_key(SCRAPER_API_KEY, batch.request)
    /\ request_counts' = BatchCounted
    /\ batch' = [batch EXCEPT !.pc = "rejected",
                              !.response = HTTPException(401, "Invalid or missing API key")]
    /\ UNCHANGED now
    /\ BatchFrame

\* lines 794-799: the request is counted and has the key, the batch is too large
BatchTooLarge ==
    /\ batch.pc = "start"
    /\ ~BatchRateLimited
    /\ ~verify_api_key(SCRAPER_API_KEY, batch.request)
    /\ Len(batch.contents) > BatchSizeLimit
    /\ request_counts' = BatchCounted
    /\ batch' = [batch EXCEPT !.pc = "rejected",
                              !.response = HTTPException(400, "Batch size exceeds limit of 50")]
    /\ UNCHANGED now
    /\ BatchFrame

\* lines 794-801: the request is counted and admitted, results = []
BatchAdmit ==
    /\ batch.pc = "start"
    /\ ~BatchRateLimited
    /\ ~verify_api_key(SCRAPER_API_KEY, batch.request)
    /\ Len(batch.contents) <= BatchSizeLimit
    /\ request_counts' = BatchCounted
    /\ batch' = [batch EXCEPT !.pc = "loop"]
    /\ UNCHANGED now
    /\ BatchFrame

\* the item the loop of line 802 is at
BatchItem == batch.contents[Len(batch.results) + 1]

\* line 804, analyze_content line 671: check_rate_limit(request) raises 429
\* for the item; the exception leaves analyze_batch
BatchItemRateLimited ==
    /\ batch.pc = "loop"
    /\ Len(batch.results) < Len(batch.contents)
    /\ BatchRateLimited
    /\ request_counts' = BatchCounted
    /\ batch' = [batch EXCEPT !.pc = "raised",
                              !.response = HTTPException(429, "Rate limit exceeded")]
    /\ UNCHANGED now
    /\ BatchFrame

\* line 804, analyze_content lines 671-691: the item's call is counted and a
\* detector raises; the exception leaves analyze_batch
BatchItemDetectorRaises ==
    /\ batch.pc = "loop"
    /\ Len(batch.results) < Len(batch.contents)
    /\ ~BatchRateLimited
    /\ ~verify_api_key(SCRAPER_API_KEY, batch.request)
    /\ request_counts' = BatchCounted
    /\ \E detector \in SyncDetectors :
          batch' = [batch EXCEPT !.pc = "raised",
                                 !.response = [status_code |-> 500, raised_by |-> detector]]
    /\ UNCHANGED now
    /\ BatchFrame

\* lines 802-805, analyze_content lines 671-782: the item's call is counted,
\* the item is analyzed and its result appended
BatchItemAnalyzed ==
    /\ batch.pc = "loop"
    /\ Len(batch.results) < Len(batch.contents)
    /\ ~BatchRateLimited
    /\ ~verify_api_key(SCRAPER_API_KEY, batch.request)
    /\ request_counts' = BatchCounted
    /\ \E tone_result \in ToneOutcomes(ContentText(BatchItem), GOOGLE_API_KEY),
          processing_time_ms \in ProcessingTimes :
          batch' = [batch EXCEPT !.results =
                      Append(batch.results,
                          ContentAnalysisResponse(BatchItem, DetectionsOf[BatchItem], tone_result,
                              Emitted(BatchItem, DetectionsOf[BatchItem], tone_result,
                                      now).events_emitted,
                              processing_time_ms))]
    /\ \E delay \in BatchDelays : now' = now + delay
    /\ BatchFrame

\* line 807
BatchReturn ==
    /\ batch.pc = "loop"
    /\ Len(batch.results) = Len(batch.contents)
    /\ batch' = [batch EXCEPT !.pc = "returned",
                              !.response = [results |-> batch.results,
                                            count |-> Len(batch.results)]]
    /\ UNCHANGED <<request_counts, now>>
    /\ BatchFrame

(***************************************************************************)
(* check_rate_limit over the life of the process: requests of several      *)
(* clients arrive one after the other while the clock advances; the        *)
(* function has no await, so its calls do not interleave                   *)
(***************************************************************************)
MaxRequests == 5
\* the seconds between one request and the next
RequestDelays == {0, 59, 60}

RateLimitInit ==
    /\ served = <<>>
    /\ calls = <<>>
    /\ batch = <<>>
    /\ request_counts = <<>>
    /\ now = Now
    /\ RATE_LIMIT \in RateLimits
    /\ SCRAPER_API_KEY = None
    /\ GOOGLE_API_KEY = None
    /\ content = <<>>
    /\ request = <<>>
    /\ analyzePc = "idle"
    /\ detections = NoResult
    /\ events_emitted = <<>>
    /\ log = <<>>
    /\ response = NoResponse
    /\ toneText = ""
    /\ api_key = None
    /\ tonePc = "idle"
    /\ capability = [state |-> "unused", prompt |-> "", answer |-> NoAnswer]
    /\ toneResult = NoResult

RequestOf(client) == [client |-> client, api_key |-> None]

\* lines 119-131: a request arrives and check_rate_limit raises 429
RateLimitRejects ==
    /\ Len(served) < MaxRequests
    /\ \E client \in ConcurrentClients, delay \in RequestDelays :
          /\ check_rate_limit(request_counts, RequestOf(client), now + delay, RATE_LIMIT).raised
          /\ request_counts' =
                 check_rate_limit(request_counts, RequestOf(client), now + delay,
                                  RATE_LIMIT).request_counts
          /\ now' = now + delay
          /\ served' = Append(served, [client |-> client[1], time |-> now + delay,
                                       raised |-> TRUE])
    /\ RateLimitFrame

\* lines 119-133: a request arrives and check_rate_limit returns
RateLimitAccepts ==
    /\ Len(served) < MaxRequests
    /\ \E client \in ConcurrentClients, delay \in RequestDelays :
          /\ ~check_rate_limit(request_counts, RequestOf(client), now + delay, RATE_LIMIT).raised
          /\ request_counts' =
                 check_rate_limit(request_counts, RequestOf(client), now + delay,
                                  RATE_LIMIT).request_counts
          /\ now' = now + delay
          /\ served' = Append(served, [client |-> client[1], time |-> now + delay,
                                       raised |-> FALSE])
    /\ RateLimitFrame

(***************************************************************************)
(* Specifications: one per component, the other components idle            *)
(***************************************************************************)
InitDedup == DedupInit /\ ToneIdle /\ FarewellIdle /\ AnalyzeIdle /\ DetectorsIdle
NextDedup == DedupStart \/ DedupIterate \/ DedupReturn
SpecDedup == InitDedup /\ [][NextDedup]_vars

InitTone == ToneInit /\ DedupIdle /\ FarewellIdle /\ AnalyzeIdle /\ DetectorsIdle
NextTone == ToneNoKey \/ ToneCall \/ CapabilityRaises \/ CapabilityReturns
SpecTone == InitTone /\ [][NextTone]_vars

InitFarewell == FarewellInit /\ DedupIdle /\ ToneIdle /\ AnalyzeIdle /\ DetectorsIdle
NextFarewell == DetectFarewell
SpecFarewell == InitFarewell /\ [][NextFarewell]_vars

InitPolitical ==
    /\ PoliticalInit
    /\ DedupIdle /\ ToneIdle /\ FarewellIdle /\ AnalyzeIdle /\ HaikuIdle /\ CrosslinkIdle
    /\ ConcurrentIdle
NextPolitical == DetectPoliticalComplaint
SpecPolitical == InitPolitical /\ [][NextPolitical]_vars

InitHaiku ==
    /\ HaikuInit
    /\ DedupIdle /\ ToneIdle /\ FarewellIdle /\ AnalyzeIdle /\ PoliticalIdle /\ CrosslinkIdle
    /\ ConcurrentIdle
NextHaiku == HaikuStart \/ HaikuCheck
SpecHaiku == InitHaiku /\ [][NextHaiku]_vars

InitCrosslink ==
    /\ CrosslinkInit
    /\ DedupIdle /\ ToneIdle /\ FarewellIdle /\ AnalyzeIdle /\ PoliticalIdle /\ HaikuIdle
    /\ ConcurrentIdle
NextCrosslink == DetectCrosslinks
SpecCrosslink == InitCrosslink /\ [][NextCrosslink]_vars

InitConcurrent ==
    /\ ConcurrentInit
    /\ DedupIdle /\ FarewellIdle /\ PoliticalIdle /\ HaikuIdle /\ CrosslinkIdle
NextConcurrent ==
    \E c \in CallIds :
        \/ CallRejectedByRateLimit(c)
        \/ CallRejectedByKey(c)
        \/ CallDetect(c)
        \/ CallRespond(c)
SpecConcurrent == InitConcurrent /\ [][NextConcurrent]_vars

InitAnalyze == AnalyzeInit /\ ToneNotCalled /\ DedupIdle /\ FarewellIdle /\ DetectorsIdle
NextAnalyze ==
    \/ AnalyzeRateLimited
    \/ AnalyzeUnauthorized
    \/ AnalyzeDetect
    \/ AnalyzeDetectorRaises
    \/ ToneNoKey
    \/ ToneCall
    \/ CapabilityRaises
    \/ CapabilityReturns
    \/ AnalyzeRespond
SpecAnalyze == InitAnalyze /\ [][NextAnalyze]_vars

InitBatch ==
    /\ BatchInit
    /\ DedupIdle /\ FarewellIdle /\ PoliticalIdle /\ HaikuIdle /\ CrosslinkIdle
NextBatch ==
    \/ BatchRejectedByRateLimit
    \/ BatchRejectedByKey
    \/ BatchTooLarge
    \/ BatchAdmit
    \/ BatchItemRateLimited
    \/ BatchItemDetectorRaises
    \/ BatchItemAnalyzed
    \/ BatchReturn
SpecBatch == InitBatch /\ [][NextBatch]_vars

InitRateLimit ==
    /\ RateLimitInit
    /\ DedupIdle /\ FarewellIdle /\ PoliticalIdle /\ HaikuIdle /\ CrosslinkIdle
NextRateLimit == RateLimitRejects \/ RateLimitAccepts
SpecRateLimit == InitRateLimit /\ [][NextRateLimit]_vars

(***************************************************************************)
(* Claims about deduplicate_events                                         *)
(***************************************************************************)
\* a fuzzy duplicate pair: same dateStart, title similarity at or above the threshold
FuzzyDuplicates(e1, e2, threshold) ==
    e1.dateStart = e2.dateStart /\ Similar(e1, e2, threshold)

\* the list without its k-th element
WithoutIndex(l, k) == [n \in 1..(Len(l) - 1) |-> IF n < k THEN l[n] ELSE l[n + 1]]

\* C20: in one iteration of deduplicate, a record whose exact key is unseen
\* and which scores at or above the threshold against a kept record of the
\* same dateStart is handled against the first such kept record only: with a
\* strictly longer description, that kept record is removed and the new
\* record is accepted (appended) and its exact key registered; otherwise the
\* accepted list and the set of seen keys stay as they are.
C20_FirstMatchDecides ==
    [][ ( /\ dedupPc = "loop"
          /\ idx <= Len(events)
          /\ idx' = idx + 1
          /\ ExactKey[events[idx]] \notin seen_keys )
        => LET event == events[idx]
               scoring == FuzzyMatches(deduplicated, event, similarity_threshold)
           IN  scoring # {} =>
                   IF DescLen(event.description) > DescLen(deduplicated[FirstOf(scoring)].description)
                   THEN /\ deduplicated' = Append(WithoutIndex(deduplicated, FirstOf(scoring)), event)
                        /\ seen_keys' = seen_keys \cup {ExactKey[event]}
                   ELSE /\ deduplicated' = deduplicated
                        /\ seen_keys' = seen_keys ]_vars

\* three records of one date: the third scores against both kept records,
\* which do not score against each other, and has a longer description than
\* the first; the first has been replaced and the second is still kept
C20_Witness ==
    /\ dedupPc = "done"
    /\ Len(events) = 3
    /\ ~FuzzyDuplicates(events[1], events[2], similarity_threshold)
    /\ FuzzyDuplicates(events[3], events[1], similarity_threshold)
    /\ FuzzyDuplicates(events[3], events[2], similarity_threshold)
    /\ DescLen(events[3].description) > DescLen(events[1].description)
    /\ DescLen(events[3].description) <= DescLen(events[2].description)
    /\ dedupResult = <<events[2], events[3]>>

\* no two records of the list have the same exact key
DistinctKeys(l) ==
    \A m \in DOMAIN l, n \in DOMAIN l : ExactKey[l[m]] = ExactKey[l[n]] => m = n

\* C21: no two records of deduplicate's accepted list, and so of its output,
\* share an exact key normalizedTitle:dateStart, and a record whose exact key
\* is already registered when it is processed is skipped: the accepted list
\* stays as it is.
C21_ExactKeysDistinct ==
    [][ /\ DistinctKeys(deduplicated')
        /\ DistinctKeys(dedupResult')
        /\ ( /\ dedupPc = "loop"
             /\ idx <= Len(events)
             /\ idx' = idx + 1
             /\ ExactKey[events[idx]] \in seen_keys )
           => deduplicated' = deduplicated ]_vars

\* two different records with one exact key, the second with the longer
\* description: only the first is returned
C21_Witness ==
    /\ dedupPc = "done"
    /\ Len(events) = 2
    /\ events[1].title # events[2].title
    /\ ExactKey[events[1]] = ExactKey[events[2]]
    /\ DescLen(events[2].description) > DescLen(events[1].description)
    /\ dedupResult = <<events[1]>>

\* C22: deduplicate keeps the accepted records in the order in which they
\* were accepted: an iteration leaves the accepted list as it is, or puts the
\* record at its end, or removes one kept record (the replaced one) and puts
\* the record at the end, after every record accepted so far and not at the
\* replaced record's place; the output is the accepted list.
C22_AcceptanceOrderKept ==
    [][ /\ ( dedupPc = "loop" /\ idx <= Len(events) /\ idx' = idx + 1 )
           => \/ deduplicated' = deduplicated
              \/ deduplicated' = Append(deduplicated, events[idx])
              \/ \E k \in DOMAIN deduplicated :
                    /\ FuzzyDuplicates(events[idx], deduplicated[k], similarity_threshold)
                    /\ deduplicated' = Append(WithoutIndex(deduplicated, k), events[idx])
        /\ ( dedupPc = "loop" /\ dedupPc' = "done" ) => dedupResult' = deduplicated ]_vars

\* the third record replaces the first, which another record followed: the
\* replacement comes last in the output
C22_Witness ==
    /\ dedupPc = "done"
    /\ Len(events) = 3
    /\ FuzzyDuplicates(events[3], events[1], similarity_threshold)
    /\ events[2].dateStart # events[1].dateStart
    /\ events[3].description = Some("abc")
    /\ events[1].description = Some("a")
    /\ dedupResult = <<events[2], events[3]>>

DatesOf(l) == {l[k].dateStart : k \in DOMAIN l}

\* C28: deduplicate neither alters nor makes up records: the input list is
\* the same after the call, every output record is one of the input records,
\* the output is no longer than the input, every dateStart of the input is
\* the dateStart of some output record, and the empty input gives the empty
\* output.
C28_RecordsOnlySelected ==
    [][ /\ events' = events
        /\ dedupPc' = "done" =>
              /\ \A k \in DOMAIN dedupResult' : dedupResult'[k] \in Range(events)
              /\ Len(dedupResult') <= Len(events)
              /\ DatesOf(events) \subseteq DatesOf(dedupResult')
              /\ events = <<>> => dedupResult' = <<>> ]_vars

\* three records on two dates, all titled alike: one record of each date is
\* returned
C28_Witness ==
    /\ dedupPc = "done"
    /\ Len(events) = 3
    /\ Cardinality(DatesOf(events)) = 2
    /\ \A m \in 1..3, n \in 1..3 : Similar(events[m], events[n], similarity_threshold)
    /\ Len(dedupResult) = 2
    /\ DatesOf(dedupResult) = DatesOf(events)

KeysOf(l) == {ExactKey[l[k]] : k \in DOMAIN l}

\* C30, as stated: throughout deduplicate's loop the set of registered exact
\* keys equals the set of the exact keys of the currently accepted records
\* (so that a record skipped as an exact-key duplicate has the key of a
\* record in the accepted list).
C30_RegisteredKeysAreAcceptedKeys ==
    dedupPc = "loop" => seen_keys = KeysOf(deduplicated)

\* C30, amended: throughout deduplicate's loop the set of registered exact
\* keys contains the exact key of every currently accepted record, no key is
\* ever taken out of it, and a key enters it only in the step that puts its
\* record at the end of the accepted list (so that a record skipped as an
\* exact-key duplicate has the key of a record that is in the accepted list
\* or was in it and has been replaced).
C30_RegisteredKeysCoverAccepted ==
    [][ /\ KeysOf(deduplicated') \subseteq seen_keys'
        /\ dedupPc = "loop" =>
              /\ seen_keys \subseteq seen_keys'
              /\ \A key \in seen_keys' \ seen_keys :
                    /\ deduplicated' # <<>>
                    /\ deduplicated'[Len(deduplicated')] = events[idx]
                    /\ ExactKey[events[idx]] = key ]_vars

\* the second record has replaced the first, whose key stays registered: the
\* third record, with the key of the first, is skipped
C30_Witness ==
    /\ dedupPc = "done"
    /\ Len(events) = 3
    /\ ExactKey[events[3]] = ExactKey[events[1]]
    /\ ExactKey[events[2]] # ExactKey[events[1]]
    /\ dedupResult = <<events[2]>>
    /\ seen_keys = {ExactKey[events[1]], ExactKey[events[2]]}

\* C1: deduplicate is idempotent: deduplicating the returned list again
\* returns the same records in the same order.
C1_Idempotent ==
    dedupPc = "done" => deduplicate_events(dedupResult, similarity_threshold) = dedupResult

\* C2: two records with the same dateStart whose normalized titles score at
\* or above the threshold (titles equal after normalization included) come
\* back as exactly one record, the one with the longer description,
\* whichever of the two comes first.
C2_LongerDescriptionKept ==
    ( /\ dedupPc = "done"
      /\ Len(events) = 2
      /\ FuzzyDuplicates(events[1], events[2], similarity_threshold) )
    => /\ Len(dedupResult) = 1
       /\ dedupResult[1] \in {events[1], events[2]}
       /\ DescLen(dedupResult[1].description) >= DescLen(events[1].description)
       /\ DescLen(dedupResult[1].description) >= DescLen(events[2].description)

\* C3: the returned list holds no fuzzy duplicates: no two distinct returned
\* records have the same dateStart and similar normalized titles.
C3_NoFuzzyDuplicates ==
    dedupPc = "done" =>
        \A i, j \in DOMAIN dedupResult :
            i # j => ~FuzzyDuplicates(dedupResult[i], dedupResult[j], similarity_threshold)

(***************************************************************************)
(* Claims about classify_tone                                              *)
(***************************************************************************)
\* the answer is a JSON object, bare or inside a leading code fence: what
\* the capability was asked for
AnswersWithObject(answer) ==
    ResponseBodies[answer.body].json = "object" /\ answer.wrapping # "prose"

\* the call to the capability failed: it raised, or its answer is no JSON object
CapabilityFailed ==
    \/ capability.state = "raised"
    \/ capability.state = "returned" /\ ~AnswersWithObject(capability.answer)

\* C6: classifyTone never raises; with no capability configured, or when
\* the capability call fails (an exception, an answer that is not JSON, JSON
\* that is not an object), it returns the keyword fallback's result on the
\* full input text.
C6_FailureGivesFallback ==
    tonePc = "done" =>
        /\ toneResult # NoResult
        /\ ~Truthy(ResolvedKey(api_key, GOOGLE_API_KEY)) <=> capability.state = "unused"
        /\ (capability.state = "unused" \/ CapabilityFailed)
               => toneResult = classify_tone_fallback(toneText)

C6_Witness ==
    /\ tonePc = "done"
    /\ capability.state = "returned"
    /\ ResponseBodies[capability.answer.body].json = "array"
    /\ toneText = LongText
    /\ toneResult.tone = "hostile"

\* the steps classify_tone takes by itself, the capability not answering
ToneOwnStep == ToneNoKey \/ ToneCall

\* C7: the capability call is bounded by a timeout: when the capability
\* never answers, classifyTone still goes on to the fallback and returns.
\* So in every state classify_tone has returned or can take a step of its own.
C7_ReturnsWithoutAnswer == tonePc = "done" \/ ENABLED ToneOwnStep

\* C8: every returned ToneResult has its tone and its classification among
\* the declared values and its confidence within [0,1].
C8_ToneResultShape ==
    tonePc = "done" =>
        /\ toneResult.tone \in ToneTypes
        /\ toneResult.classification \in ClassificationTypes
        /\ toneResult.confidence \in 0..100

\* the number of keywords of a set that occur in the text, case ignored
Hits(keywords, text) == Cardinality({k \in Range(keywords) : Contains(Lower(text), k)})

\* min(0.5 + 0.1 * h, 0.8), in hundredths
FallbackConfidence(h) == IF h = 2 THEN 70 ELSE 80

\* C9: the keyword fallback is a strict priority cascade over the four hit
\* counts: hostile >= 2, else frustrated >= 2, else dramatic >= 2, else
\* polite >= 2, else neutral/neutral at 0.6; a winning set with h hits gives
\* confidence 0.7 for h = 2 and 0.8 for h >= 3; never hateful.
C9_FallbackCascade ==
    (tonePc = "done" /\ capability.state = "unused") =>
        LET h == Hits(HOSTILE_KEYWORDS, toneText)
            f == Hits(FRUSTRATED_KEYWORDS, toneText)
            d == Hits(DRAMATIC_KEYWORDS, toneText)
            p == Hits(POLITE_KEYWORDS, toneText)
        IN /\ toneResult.classification # "hateful"
           /\ toneResult.trigger_phrase = None
           /\ CASE h >= 2 -> toneResult = ToneResult("hostile", FallbackConfidence(h), "adversarial", None)
                [] h < 2 /\ f >= 2 ->
                     toneResult = ToneResult("frustrated", FallbackConfidence(f), "adversarial", None)
                [] h < 2 /\ f < 2 /\ d >= 2 ->
                     toneResult = ToneResult("dramatic", FallbackConfidence(d), "neutral", None)
                [] h < 2 /\ f < 2 /\ d < 2 /\ p >= 2 ->
                     toneResult = ToneResult("polite", FallbackConfidence(p), "friendly", None)
                [] OTHER -> toneResult = ToneResult("neutral", 60, "neutral", None)

C9_Witness ==
    /\ tonePc = "done"
    /\ capability.state = "unused"
    /\ Hits(HOSTILE_KEYWORDS, toneText) = 2
    /\ Hits(FRUSTRATED_KEYWORDS, toneText) >= 2
    /\ toneResult.tone = "hostile"
    /\ toneResult.confidence = 70

(***************************************************************************)
(* Claims about detect_farewell                                            *)
(***************************************************************************)
NegationMatches(text) == AnyMatches(NEGATIVE_PATTERNS, text)
FarewellPatternMatches(text) == AnyMatches(UNSUBSCRIBE_PATTERNS, text)
ContextKeywordPresent(text) ==
    \E k \in DOMAIN CONTEXT_KEYWORDS : Contains(Lower(text), CONTEXT_KEYWORDS[k])

\* C10: detect_farewell returns detected = true if and only if no negation
\* pattern matches the text and at least one farewell pattern matches it (so a
\* negation match vetoes detection whatever else is present), and every
\* detected = false result carries confidence 0 and no matched patterns.
C10_DetectedIffPatternAndNoNegation ==
    farewellPc = "done" =>
        /\ farewellResult.detected <=>
               (~NegationMatches(farewellText) /\ FarewellPatternMatches(farewellText))
        /\ ~farewellResult.detected =>
               (farewellResult.confidence = 0 /\ farewellResult.matched_patterns = <<>>)

\* a text with a negation pattern, a farewell pattern and a context keyword has
\* been answered with detected = false
C10_Witness ==
    /\ farewellPc = "done"
    /\ NegationMatches(farewellText)
    /\ FarewellPatternMatches(farewellText)
    /\ ContextKeywordPresent(farewellText)
    /\ ~farewellResult.detected

\* the number m of farewell patterns that match and the number c of context
\* keywords present
FarewellPatternCount(text) ==
    Cardinality({k \in DOMAIN UNSUBSCRIBE_PATTERNS : Search(UNSUBSCRIBE_PATTERNS[k], text)})
ContextKeywordCount(text) ==
    Cardinality({k \in DOMAIN CONTEXT_KEYWORDS : Contains(Lower(text), CONTEXT_KEYWORDS[k])})

\* min(min(0.5 + 0.15*m, 0.8) + 0.05*c, 0.95), in hundredths
StatedConfidence(m, c) == Min(Min(50 + 15 * m, 80) + 5 * c, 95)

\* C11: when detect_farewell detects, confidence equals
\* min(min(0.5 + 0.15*m, 0.8) + 0.05*c, 0.95) for m matched farewell patterns
\* (m >= 1) and c context keywords present; it lies in [0.65, 0.95], is not
\* smaller than the value for any smaller m or c, and is strictly greater
\* than 0.65 whenever a context keyword is present.
C11_ConfidenceFormula ==
    (farewellPc = "done" /\ farewellResult.detected) =>
        LET m == FarewellPatternCount(farewellText)
            c == ContextKeywordCount(farewellText)
        IN  /\ m >= 1
            /\ m = Len(farewellResult.matched_patterns)
            /\ farewellResult.confidence = StatedConfidence(m, c)
            /\ farewellResult.confidence >= 65
            /\ farewellResult.confidence <= 95
            /\ \A m0 \in 1..m, c0 \in 0..c :
                   StatedConfidence(m0, c0) <= farewellResult.confidence
            /\ c >= 1 => farewellResult.confidence > 65

\* a detected farewell for which the cap at 0.95 cuts the sum (two patterns
\* and four context keywords)
C11_Witness ==
    /\ farewellPc = "done"
    /\ farewellResult.detected
    /\ FarewellPatternCount(farewellText) >= 2
    /\ ContextKeywordCount(farewellText) >= 4
    /\ farewellResult.confidence = 95

\* C12: the quick filter never changes the detector's outcome: for every
\* text, if could_be_farewell(text) is false then detect_farewell(text) has
\* detected = false, so skipping the patterns on a failed quick filter gives
\* the same result as running them.
C12_QuickFilterSound ==
    (farewellPc = "done" /\ ~could_be_farewell(farewellText)) => ~farewellResult.detected

(***************************************************************************)
(* Claims about detect_political_complaint                                 *)
(***************************************************************************)
\* the patterns that match the text
PoliticalHits(text) ==
    {k \in DOMAIN POLITICAL_COMPLAINT_PATTERNS : Search(POLITICAL_COMPLAINT_PATTERNS[k], text)}

\* the texts a pattern can match at its leftmost starting position (re.search
\* returns one of them)
MatchedTexts(p, text) ==
    LET lower == Lower(text)
        starts == {i \in 1..(Len(lower) + 1) : Ends(p.re, lower, i) # {}}
    IN  {SubSeq(lower, FirstOf(starts), j - 1) : j \in Ends(p.re, lower, FirstOf(starts))}

\* the complaint type the matched text gives
TypeOfMatchedText(matched) ==
    IF search(RightLeaningMarkers, matched) THEN "right-leaning"
    ELSE IF search(LeftLeaningMarkers, matched) THEN "left-leaning"
    ELSE "general"

\* C13: detect_political_complaint classifies from the text matched by the
\* first matching pattern (right-leaning if that text contains a right-leaning
\* marker, else left-leaning if it contains a left-leaning marker, else
\* general), so markers outside the matched text do not count; without a
\* match the result is detected = false with no type and no pattern.
C13_TypeFromMatchedText ==
    politicalPc = "done" =>
        IF PoliticalHits(politicalText) = {}
        THEN politicalResult = PoliticalComplaintResult(FALSE, None, None)
        ELSE LET pattern == POLITICAL_COMPLAINT_PATTERNS[FirstOf(PoliticalHits(politicalText))]
             IN  /\ politicalResult.detected
                 /\ politicalResult.matched_pattern = Some(pattern.pattern)
                 /\ \E matched \in MatchedTexts(pattern, politicalText) :
                        politicalResult.complaint_type = Some(TypeOfMatchedText(matched))

(***************************************************************************)
(* Claims about detect_haiku                                               *)
(***************************************************************************)
\* the syllable counts of a list of words
SyllablesOf(ws) == [k \in 1..Len(ws) |-> count_syllables(ws[k])]

\* the cuts 1 <= a < b < n (after word a and after word b) whose three
\* segments have 5, 7 and 5 syllables
HaikuCuts(syllables) ==
    {p \in (1..Len(syllables)) \X (1..Len(syllables)) :
        /\ p[1] < p[2]
        /\ p[2] < Len(syllables)
        /\ SliceSum(syllables, 0, p[1]) = 5
        /\ SliceSum(syllables, p[1], p[2]) = 7
        /\ SliceSum(syllables, p[2], Len(syllables)) = 5}

\* the first cut, scanning a ascending then b ascending
FirstCut(cuts) ==
    CHOOSE p \in cuts : \A q \in cuts : p[1] < q[1] \/ (p[1] = q[1] /\ p[2] <= q[2])

WordCountInRange(ws) == Len(ws) >= 7 /\ Len(ws) <= 25

\* C14: detect_haiku returns detected = true if and only if the word count n
\* is in [7,25], the syllable counts sum to 17 and cuts 1 <= i < j < n with
\* segment sums 5, 7, 5 exist; the result then has the lines of the first such
\* cut (i ascending, then j ascending), joined by single spaces, and syllables
\* [5,7,5]; every detected = false result has no lines and no syllables.
C14_HaikuIffSplit ==
    haikuPc = "done" =>
        LET ws == get_words(haikuText)
            cuts == HaikuCuts(SyllablesOf(ws))
        IN  /\ haikuResult.detected <=>
                   (/\ WordCountInRange(ws)
                    /\ Sum(SyllablesOf(ws)) = 17
                    /\ cuts # {})
            /\ haikuResult.detected =>
                   /\ haikuResult.lines =
                          Some(<<Join(SubSeq(ws, 1, FirstCut(cuts)[1]), " "),
                                 Join(SubSeq(ws, FirstCut(cuts)[1] + 1, FirstCut(cuts)[2]), " "),
                                 Join(SubSeq(ws, FirstCut(cuts)[2] + 1, Len(ws)), " ")>>)
                   /\ haikuResult.syllables = Some(<<5, 7, 5>>)
            /\ ~haikuResult.detected =>
                   (haikuResult.lines = None /\ haikuResult.syllables = None)
            /\ haikuResult = detect_haiku(haikuText)

\* seventeen one-syllable words have been answered with lines of 5, 7 and 5
\* words
C14_Witness ==
    /\ haikuPc = "done"
    /\ Len(haikuWords) = 17
    /\ \A k \in 1..17 : haikuSyllables[k] = 1
    /\ haikuResult.detected
    /\ Len(get_words(haikuResult.lines[1][1])) = 5
    /\ Len(get_words(haikuResult.lines[1][2])) = 7
    /\ Len(get_words(haikuResult.lines[1][3])) = 5

\* (n-1)(n-2)/2 for n words
MaxPartitionChecks(n) == ((n - 1) * (n - 2)) \div 2

\* C15: detect_haiku never enters the partition search when the word count
\* is outside [7,25] or the total syllable count differs from 17 (it returns
\* detected = false after zero partition checks), and in all cases the search
\* makes at most (n-1)(n-2)/2 <= 276 partition checks before it ends.
C15_SearchBounded ==
    haikuPc \in {"search", "done"} =>
        /\ LET ws == get_words(haikuText)
           IN  (~WordCountInRange(ws) \/ Sum(SyllablesOf(ws)) # 17) =>
                   (haikuPc = "done" /\ ~haikuResult.detected /\ haikuChecks = 0)
        /\ haikuPc = "search" =>
               (Len(haikuWords) >= 3 /\ haikuChecks < MaxPartitionChecks(Len(haikuWords)))
        /\ haikuPc = "done" /\ haikuChecks > 0 =>
               haikuChecks <= MaxPartitionChecks(Len(haikuWords))
        /\ haikuChecks <= 276

\* a text of 7 to 25 words whose syllables do not sum to 17 has been rejected
\* without a partition check
C15_Witness ==
    /\ haikuPc = "done"
    /\ WordCountInRange(get_words(haikuText))
    /\ Sum(SyllablesOf(get_words(haikuText))) # 17
    /\ haikuChecks = 0
    /\ ~haikuResult.detected

\* C29: every word get_words keeps counts at least one syllable, so the
\* cumulative syllable sums are strictly increasing; hence a text has at most
\* one 5-7-5 cut, and detected = true implies a word count between 7 and 17:
\* a text of 18 to 25 words passes the word-count filter and is never
\* detected.
C29_EveryWordCounts ==
    haikuPc \in {"search", "done"} =>
        LET ws == get_words(haikuText)
            syl == SyllablesOf(get_words(haikuText))
        IN  /\ \A k \in 1..Len(syl) : syl[k] >= 1
            /\ \A k \in 1..(Len(syl) - 1) : SliceSum(syl, 0, k) < SliceSum(syl, 0, k + 1)
            /\ Cardinality(HaikuCuts(syl)) <= 1
            /\ (haikuPc = "done" /\ haikuResult.detected) => (Len(ws) >= 7 /\ Len(ws) <= 17)

\* a text of 18 to 25 words has passed the word-count filter and is not
\* detected
C29_Witness ==
    /\ haikuPc = "done"
    /\ Len(haikuWords) >= 18
    /\ Len(haikuWords) <= 25
    /\ Len(haikuSyllables) = Len(haikuWords)
    /\ Sum(haikuSyllables) >= 18
    /\ ~haikuResult.detected

(***************************************************************************)
(* Claims about detect_crosslinks                                          *)
(***************************************************************************)
\* the matches of REDDIT_LINK_PATTERNS[n] in the text
MatchesIn(n, text) == Range(finditer(n, text, 1))

\* the full reference URLs that were recorded (not excluded), and the short
\* URLs
RecordedFullUrls(text, exclude) ==
    {match \in MatchesIn(0, text) : ~Excluded(match.group1[1], exclude)}
ShortUrls(text) == {match.group0 : match \in MatchesIn(1, text)}

\* the links that neither a full reference URL nor a short URL produced: the
\* links bare mentions added
MentionAdded(links, recorded, short) ==
    {k \in DOMAIN links :
        /\ links[k].full_url \notin short
        /\ \A match \in recorded : match.group0 # links[k].full_url}

LinksFor(links, subreddit) ==
    {k \in DOMAIN links : Lower(links[k].subreddit) = Lower(subreddit)}

\* C16: the URL form wins over bare mentions: when a full reference URL of
\* subreddit X was recorded, no bare mention r/X (compared case-insensitively)
\* adds a link, and repeated bare mentions of one subreddit add at most one
\* link.
C16_UrlFormWins ==
    crosslinkPc = "done" =>
        LET links == crosslinkResult.links
            recorded == RecordedFullUrls(crosslinkText, crosslinkExclude)
            added == MentionAdded(links, recorded, ShortUrls(crosslinkText))
        IN  /\ \A k \in added :
                   \A match \in recorded :
                       Lower(match.group1[1]) # Lower(links[k].subreddit)
            /\ \A k1 \in added, k2 \in added :
                   Lower(links[k1].subreddit) = Lower(links[k2].subreddit) => k1 = k2

\* r/foo mentioned twice and one full URL of foo: exactly one link for foo
C16_Witness ==
    /\ crosslinkPc = "done"
    /\ crosslinkExclude = None
    /\ Cardinality({k \in DOMAIN finditer(2, crosslinkText, 1) :
                       finditer(2, crosslinkText, 1)[k].group1 = Some("foo")}) = 2
    /\ Cardinality(RecordedFullUrls(crosslinkText, None)) = 1
    /\ Cardinality(LinksFor(crosslinkResult.links, "foo")) = 1
    /\ crosslinkResult.links[1].full_url = "https://reddit.com/r/foo"

\* C17: with exclude_subreddit = S given, no returned link comes from a full
\* reference URL or a bare mention whose subreddit equals S
\* case-insensitively, short-form links are returned whatever S is, and
\* detected is true exactly when the list of links is not empty.
C17_ExcludeFilters ==
    crosslinkPc = "done" =>
        LET links == crosslinkResult.links
            short == ShortUrls(crosslinkText)
        IN  /\ crosslinkExclude # None =>
                   \A k \in DOMAIN links :
                       \/ links[k].full_url \in short
                       \/ Lower(links[k].subreddit) # Lower(crosslinkExclude[1])
            /\ \A url \in short :
                   \E k \in DOMAIN links : links[k].full_url = url
            /\ crosslinkResult.detected <=> (links # <<>>)

\* a text with a full URL and a bare mention of the excluded subreddit
\* (written in another case) and a short URL: only the short link is returned
C17_Witness ==
    /\ crosslinkPc = "done"
    /\ crosslinkExclude = Some("FOO")
    /\ \E match \in MatchesIn(0, crosslinkText) : Lower(match.group1[1]) = "foo"
    /\ \E match \in MatchesIn(2, crosslinkText) : Lower(match.group1[1]) = "foo"
    /\ ShortUrls(crosslinkText) # {}
    /\ Len(crosslinkResult.links) = 1
    /\ crosslinkResult.links[1].subreddit = "unknown"

\* C23: a bare mention r/X of a subreddit that is not the excluded one is
\* left out of the result only when a recorded full reference URL has
\* subreddit X or an earlier mention of X was added: otherwise the result has
\* a link for X that is no short-form link; a short-form link never
\* suppresses a bare mention.
C23_MentionOnlySuppressedByUrlOrMention ==
    crosslinkPc = "done" =>
        LET links == crosslinkResult.links
            recorded == RecordedFullUrls(crosslinkText, crosslinkExclude)
            short == ShortUrls(crosslinkText)
        IN  \A mention \in MatchesIn(2, crosslinkText) :
                ( /\ ~Excluded(mention.group1[1], crosslinkExclude)
                  /\ \A match \in recorded :
                        Lower(match.group1[1]) # Lower(mention.group1[1]) )
                => \E k \in DOMAIN links :
                      /\ Lower(links[k].subreddit) = Lower(mention.group1[1])
                      /\ links[k].full_url \notin short

\* the URLs of the matches, in the order of the text
UrlsOf(matches) == [k \in DOMAIN matches |-> matches[k].group0]

FirstIndex(seq, x) == CHOOSE k \in DOMAIN seq : seq[k] = x /\ \A j \in 1..(k - 1) : seq[j] # x

\* out has no element twice, only elements of seq, in the order in which
\* they first occur in seq
OrderedByFirstOccurrence(out, seq) ==
    /\ \A a \in DOMAIN out : out[a] \in Range(seq)
    /\ \A a \in DOMAIN out, b \in DOMAIN out :
          a < b => FirstIndex(seq, out[a]) < FirstIndex(seq, out[b])

\* the matches of the full reference URLs that are not excluded, in order
RECURSIVE NotExcluded(_, _)
NotExcluded(matches, exclude) ==
    IF matches = <<>> THEN <<>>
    ELSE IF Excluded(Head(matches).group1[1], exclude) THEN NotExcluded(Tail(matches), exclude)
    ELSE <<Head(matches)>> \o NotExcluded(Tail(matches), exclude)

MentionUrls(matches) ==
    [k \in DOMAIN matches |-> "https://reddit.com/r/" \o matches[k].group1[1]]

ClassOrdered(urls, full, short, mentions) ==
    \E a \in 0..Len(urls), b \in 0..Len(urls) :
        /\ a <= b
        /\ OrderedByFirstOccurrence(SubSeq(urls, 1, a), full)
        /\ Range(SubSeq(urls, 1, a)) = Range(full)
        /\ OrderedByFirstOccurrence(SubSeq(urls, a + 1, b), short)
        /\ Range(SubSeq(urls, a + 1, b)) = Range(short)
        /\ OrderedByFirstOccurrence(SubSeq(urls, b + 1, Len(urls)), mentions)

\* C24: the links detect_crosslinks returns have pairwise distinct full_url
\* values and are ordered by pattern class: the links of the full reference
\* URLs, then the links of the short URLs, then the links of the bare
\* mentions, each class in the order of first occurrence in the text.
C24_DistinctAndClassOrdered ==
    crosslinkPc = "done" =>
        LET urls == [k \in DOMAIN crosslinkResult.links |-> crosslinkResult.links[k].full_url]
        IN  /\ \A m \in DOMAIN urls, n \in DOMAIN urls : urls[m] = urls[n] => m = n
            /\ ClassOrdered(urls,
                   UrlsOf(NotExcluded(finditer(0, crosslinkText, 1), crosslinkExclude)),
                   UrlsOf(finditer(1, crosslinkText, 1)),
                   MentionUrls(finditer(2, crosslinkText, 1)))

\* a text with a mention, then a short URL, then a full URL: the links come
\* back as full URL, short URL, mention
C24_Witness ==
    /\ crosslinkPc = "done"
    /\ crosslinkText =
           "check r/foo and https://redd.it/ab1 and https://old.reddit.com/r/Bar/comments/ab1/t/cd2"
    /\ Len(crosslinkResult.links) = 3
    /\ crosslinkResult.links[1].subreddit = "Bar"
    /\ crosslinkResult.links[2].full_url = "https://redd.it/ab1"
    /\ crosslinkResult.links[3].full_url = "https://reddit.com/r/foo"

(***************************************************************************)
(* Claims about analyze_content                                            *)
(***************************************************************************)
CountOf(seq, x) == Cardinality({k \in DOMAIN seq : seq[k] = x})

\* crosslinks were detected and the tone classification is adversarial or hateful
HostileCase ==
    /\ detections.crosslink.detected
    /\ toneResult.classification \in HostileClassifications

HostileLogEntries == Cardinality({k \in DOMAIN log : log[k].event = "hostile_crosslink"})

\* C4, as stated: in the result, when crosslinks were detected and the tone
\* classification is adversarial or hateful, events_emitted contains
\* hostile_crosslink once per crosslink (as many entries as the crosslink
\* result has links); otherwise it contains none.
C4_HostileCrosslinkPerLink ==
    analyzePc = "responded" =>
        CountOf(response.events_emitted, "hostile_crosslink") =
            IF HostileCase THEN Len(detections.crosslink.links) ELSE 0

\* C4, amended: in the result, when crosslinks were detected and the tone
\* classification is adversarial or hateful, events_emitted contains
\* hostile_crosslink exactly once, however many links there are, and one
\* hostile_crosslink log entry has been emitted per link; otherwise
\* events_emitted contains none and no such entry has been emitted.
C4_HostileCrosslinkOnce ==
    analyzePc = "responded" =>
        /\ CountOf(response.events_emitted, "hostile_crosslink") = IF HostileCase THEN 1 ELSE 0
        /\ HostileLogEntries = IF HostileCase THEN Len(detections.crosslink.links) ELSE 0

\* a result for a text with two crosslinks and an adversarial or hateful tone
C4_Witness ==
    /\ analyzePc = "responded"
    /\ HostileCase
    /\ Len(response.detections.crosslink.links) >= 2
    /\ HostileLogEntries = Len(response.detections.crosslink.links)
    /\ CountOf(response.events_emitted, "hostile_crosslink") = 1

\* C25: in analyze_content the step that decides on hostile_crosslink is
\* taken only when both the crosslink result and the tone result (capability
\* answer or fallback) are available, and it uses them unchanged; the haiku,
\* farewell, political-complaint and crosslink detectors complete in a step
\* taken before the capability is called, so their results are there while
\* the capability call is pending.
C25_DecisionAfterBothResults ==
    [][ /\ (analyzePc' = "responded" /\ analyzePc # "responded") =>
               /\ detections # NoResult
               /\ tonePc = "done"
               /\ toneResult # NoResult
               /\ detections' = detections
               /\ toneResult' = toneResult
               /\ ("hostile_crosslink" \in Range(events_emitted')) <=> HostileCase
        /\ (events_emitted' # events_emitted \/ log' # log) =>
               (analyzePc' = "responded" /\ analyzePc # "responded")
        /\ detections' # detections =>
               /\ capability.state = "unused"
               /\ capability'.state = "unused"
               /\ toneResult' = NoResult
               /\ {"haiku", "farewell", "political_complaint", "crosslink"} \subseteq DOMAIN detections'
        /\ capability'.state = "pending" => detections' # NoResult ]_vars

\* a hostile_crosslink decision for which the capability was called and
\* answered after the detectors had completed
C25_Witness ==
    /\ analyzePc = "responded"
    /\ capability.state = "returned"
    /\ detections.crosslink.detected
    /\ toneResult.classification \in HostileClassifications
    /\ "hostile_crosslink" \in Range(events_emitted)

\* the name, when the detection was made
NameIf(detected, name) == IF detected THEN <<name>> ELSE <<>>

\* C18: in the result of every content item, events_emitted contains
\* haiku_detection iff the haiku result is detected, farewell_announcement
\* iff the farewell result is detected, political_complaint iff the
\* political-complaint result is detected, and hostile_crosslink only if
\* crosslinks are detected and the tone classification is adversarial or
\* hateful; the names are in that order and there is no other name.
C18_EventsFollowDetections ==
    analyzePc = "responded" =>
        LET found == response.detections
        IN  \E hostile \in {<<>>, <<"hostile_crosslink">>} :
                /\ hostile # <<>> =>
                       /\ found.crosslink.detected
                       /\ found.tone.classification \in {"adversarial", "hateful"}
                /\ response.events_emitted =
                       NameIf(found.haiku.detected, "haiku_detection")
                           \o NameIf(found.farewell.detected, "farewell_announcement")
                           \o NameIf(found.political_complaint.detected, "political_complaint")
                           \o hostile

\* a result with a farewell, a political complaint and a hostile crosslink
C18_Witness ==
    /\ analyzePc = "responded"
    /\ response.detections.farewell.detected
    /\ response.detections.political_complaint.detected
    /\ ~response.detections.haiku.detected
    /\ response.events_emitted =
           <<"farewell_announcement", "political_complaint", "hostile_crosslink">>

(***************************************************************************)
(* Claims about analyze_batch                                              *)
(***************************************************************************)
\* the timestamps the client of the batch has been given since the batch came
BatchSlots ==
    LET client_ip == batch.request.client[1]
    IN  IF client_ip \in DOMAIN request_counts
        THEN Cardinality({k \in DOMAIN request_counts[client_ip] :
                             request_counts[client_ip][k] >= Now})
        ELSE 0

\* C26: items inside a batch bypass rate limiting: a batch of at most 50
\* items that has passed the endpoint's own rate-limit check is not stopped by
\* the rate limit afterwards, whatever RATE_LIMIT is; when it returns there is
\* one result per item in input order, count is the number of items, and the
\* client has been charged exactly one rate-limit slot.
C26_BatchItemsBypassRateLimit ==
    /\ batch.pc = "raised" => batch.response.status_code # 429
    /\ batch.pc = "returned" =>
           /\ batch.response.count = Len(batch.contents)
           /\ Len(batch.response.results) = Len(batch.contents)
           /\ \A k \in DOMAIN batch.contents :
                  batch.response.results[k].detections.crosslink =
                      DetectionsOf[batch.contents[k]].crosslink
           /\ BatchSlots = 1

(***************************************************************************)
(* Claims about check_rate_limit                                           *)
(***************************************************************************)
\* the accepted requests of the client among served[i..k]
AcceptedBetween(client, i, k) ==
    {j \in i..k : served[j].client = client /\ ~served[j].raised}

\* the accepted requests of the client of served[k] that came before it and
\* less than RATE_WINDOW seconds earlier
AcceptedInWindowBefore(k) ==
    {j \in AcceptedBetween(served[k].client, 1, k - 1) :
        served[k].time - served[j].time < RATE_WINDOW}

\* C27: after any sequence of requests, check_rate_limit has accepted at most
\* RATE_LIMIT requests of any one client within any span shorter than
\* RATE_WINDOW seconds; a rejected request records no timestamp and does not
\* postpone the client's next acceptance, and the requests of one client never
\* change the acceptance of another's: a request is rejected exactly when
\* RATE_LIMIT accepted requests of its own client lie less than RATE_WINDOW
\* seconds before it.
C27_RateLimitPerClientWindow ==
    /\ \A i \in DOMAIN served, k \in DOMAIN served :
           (i <= k /\ served[k].time - served[i].time < RATE_WINDOW) =>
               \A client \in {served[j].client : j \in DOMAIN served} :
                   Cardinality(AcceptedBetween(client, i, k)) <= RATE_LIMIT
    /\ \A k \in DOMAIN served :
           served[k].raised <=> Cardinality(AcceptedInWindowBefore(k)) >= RATE_LIMIT
    /\ \A c \in DOMAIN request_counts :
           \A n \in DOMAIN request_counts[c] :
               \E k \in DOMAIN served :
                   /\ served[k].client = c
                   /\ ~served[k].raised
                   /\ served[k].time = request_counts[c][n]

\* a client is accepted, rejected 59 seconds later, and accepted again less
\* than RATE_WINDOW seconds after the rejection, another client having been
\* served in between
C27_Witness ==
    \E i \in DOMAIN served, j \in DOMAIN served, m \in DOMAIN served, k \in DOMAIN served :
        /\ i < j /\ j < m /\ m < k
        /\ served[i].client = served[j].client
        /\ served[k].client = served[j].client
        /\ served[m].client # served[j].client
        /\ ~served[i].raised
        /\ served[j].raised
        /\ ~served[m].raised
        /\ ~served[k].raised
        /\ served[j].time > served[i].time
        /\ served[k].time - served[j].time < RATE_WINDOW
        /\ served[k].time > served[j].time

\* what the call returns when it is the only call the process serves
AdmittedAlone(c) ==
    /\ ~check_rate_limit(<<>>, calls[c].request, now, RATE_LIMIT).raised
    /\ ~verify_api_key(SCRAPER_API_KEY, calls[c].request)

CallFinished(c) == calls[c].pc \in {"responded", "rejected"}

\* the detections without the tone result, which the capability decides
SyncDetections(found) ==
    [haiku |-> found.haiku, farewell |-> found.farewell,
     political_complaint |-> found.political_complaint, crosslink |-> found.crosslink]

ReturnsAsAlone(c) ==
    IF AdmittedAlone(c)
    THEN /\ calls[c].pc = "responded"
         /\ LET alone == DetectionsOf[calls[c].content]
                found == calls[c].response.detections
            IN  /\ SyncDetections(found) =
                       [alone EXCEPT !.political_complaint =
                           [detected |-> alone.political_complaint.detected,
                            complaint_type |-> alone.political_complaint.complaint_type]]
                /\ calls[c].response.events_emitted =
                       Emitted(calls[c].content, alone, found.tone, now).events_emitted
    ELSE calls[c].pc = "rejected"

\* C19: analyses are independent under concurrency: in every interleaving
\* of concurrent calls of analyze_content, the detections and events_emitted
\* returned for an item are those of analyzing that item alone, the calls
\* sharing no mutable state.
C19_IndependentUnderConcurrency ==
    \A c \in CallIds : CallFinished(c) => ReturnsAsAlone(c)

\* C19, what does hold: a call that returns a result returns the detections
\* and events of its own item
C19_ResponsesOfOwnItem ==
    \A c \in CallIds : calls[c].pc = "responded" => ReturnsAsAlone(c)

\* two calls of one client have finished, both with a result
C19_BothRespond ==
    /\ \A c \in CallIds : calls[c].pc = "responded"
    /\ calls[1].request.client = calls[2].request.client
    /\ calls[1].content # calls[2].content

\* C5: analyze always returns a complete aggregated result: when a detector
\* fails (raises) while an item is processed, the caller still gets the
\* detections and the event list; the failure never reaches the caller.
C5_FailureNeverPropagates ==
    analyzePc = "raised" =>
        /\ "detections" \in DOMAIN response
        /\ "events_emitted" \in DOMAIN response

=============================================================================
